---- MODULE Spec2Model ----
(***************************************************************************)
(* State-machine model of the trace/span lifecycle engine: the TraceGraph  *)
(* (sequence counter, nodes, edges), the Span handle (construct, enter,    *)
(* exit, set_status, link, node), the ambient context (contextvars with    *)
(* restore tokens, copies for concurrent branches) and the trace scope.    *)
(*                                                                         *)
(* Node ids are the Span ids 1..MaxSpans (uuid4 ids are unique, one Node   *)
(* per Span); NoNode = 0 stands for None.  A Node object is shared by its  *)
(* Span and by every graph it is registered in, so node fields are kept    *)
(* per id and a graph's "nodes" mapping is the set of its keys.            *)
(***************************************************************************)
EXTENDS Integers, Sequences, FiniteSets, TLC

\* ---------------------------------------------------------------- bounds
MaxSpans == 3
MaxTraces == 2
MaxBranches == 3
MaxCtx == 3
LifeCalls == 5
GraphCalls == 4
ConcCalls == 6
MaxHooks == 2
HookRunCalls == 6
TaskCalls == 11
MaxStr == 2
MaxLimit == 2
DataCalls == 2
RoundCalls == 4
AsyncCalls == 9
CaptureCalls == 3
RaceCalls == 7

SpanIds == 1..MaxSpans
TraceIds == 1..MaxTraces
Branches == 1..MaxBranches
CtxIds == 1..MaxCtx
NoNode == 0
NoTrace == 0
NoCtx == 0
MainBranch == 1
MainCtx == 1

\* NodeStatus
Statuses == {"pending", "running", "completed", "failed", "cancelled"}
Terminal == {"completed", "failed", "cancelled"}

\* the error raised by host code inside a scope; "none" is exc = None.
\* "BadStrError" is an exception whose __str__ raises.
NoErr == "none"
HostErrors == {"HostError", "BadStrError"}

NoTok == [ctx |-> NoCtx, old |-> NoNode, used |-> FALSE]
NoErrFields == [error |-> "none", error_type |-> "none", error_traceback |-> "none"]

\* a size limit of TracerConfig: None (set = FALSE) or an int
NoLimit == [set |-> FALSE, n |-> 0]
\* TracerConfig(): max_input_size = None, max_output_size = None
DefaultConfig == [max_input_size |-> NoLimit, max_output_size |-> NoLimit]
\* a value kept in input_data / output_data; kind "absent": the key is not there
NoValue == [kind |-> "absent", chars |-> <<>>]
NoData == [input |-> NoValue, output |-> NoValue]
\* no TraceGraph (nothing was deserialized)
NoGraph == [trace_id |-> NoTrace, nodes |-> <<>>, edges |-> <<>>, sequence_counter |-> 0]

VARIABLES
    counter,     \* TraceGraph._sequence_counter, per trace
    gnodes,      \* keys of TraceGraph.nodes, per trace
    edges,       \* TraceGraph.edges, per trace: sequence of <<source_id, target_id, edge_type>>
    trState,     \* trace scope: "free", "created", "entered", "broken" (enter raised), "exited";
                 \* "graph" for a TraceGraph built directly
    trRoot,      \* TraceContext.root_span, per trace
    trTok,       \* TraceContext._trace_token / _node_token, per trace
    spCount,     \* number of Spans constructed so far (ids handed out)
    spTrace,     \* Span.trace
    spParent,    \* Span.parent_node (its id), NoNode for None
    nSeq,        \* Node.sequence_number
    nDepth,      \* Node.depth
    nStatus,     \* Node.status
    nErr,        \* Node.error / error_type / error_traceback
    spEntered,   \* Span._entered
    spEnters,    \* how many times __enter__ ran its body on the Span
    spTok,       \* Span._node_token
    ctxCount,    \* number of Context objects in existence
    ctxTrace,    \* value of _current_trace in each Context
    ctxNode,     \* value of _current_node in each Context
    ctxEntered,  \* Context is entered by a Context.run (wrapped callables)
    ctxWrapped,  \* the Context belongs to a propagate_context wrapper
    ctxSnap,     \* ambient <<trace, node>> copied into the Context when it was made
    brState,     \* branch: "idle", "running", "done", "failed"
    brCtx,       \* the Context the branch runs in
    brKind,      \* "main", "task" (asyncio task), "thread" (wrapped callable on a thread)
    brFresh,     \* the branch has started and made no tracing call yet
    pend,        \* per branch: the call in which its thread is switched out, and
                 \* the statement it runs next
    budget,      \* how many more API calls the host makes
    spBefore,    \* ambient <<trace, node>> of the entering context just before the Span was entered
    trBefore,    \* ambient <<trace, node>> just before the trace scope was entered
    trEnd,       \* how many times TraceGraph.end_time was stamped, per trace
    saveCalls,   \* how many times storage.save was called with the trace
    stored,      \* trace ids held by the storage backend
    warnings,    \* warnings.warn calls made by the tracing layer
    hooks,       \* Tracer.hooks: per hook, "ok" or "broken" (its every callback raises)
    spanTakesHooks, \* Span.__init__ accepts the hooks keyword TraceContext passes to it
    cfg,         \* Tracer.config: max_input_size and max_output_size
    spCfg,       \* Span._config, per Span
    nData,       \* Node.input_data / output_data, per node: the value stored under one key
    log,         \* the hook callbacks invoked so far, in order: [hook, ev, node, trace]
    last         \* the last API call and what its caller observed

vars == <<counter, gnodes, edges, trState, trRoot, trTok, spCount, spTrace, spParent,
          nSeq, nDepth, nStatus, nErr, spEntered, spEnters, spTok, ctxCount, ctxTrace,
          ctxNode, ctxEntered, ctxWrapped, ctxSnap, brState, brCtx, brKind, brFresh,
          pend, budget, spBefore, trBefore, trEnd, saveCalls, stored, warnings, hooks,
          spanTakesHooks, cfg, spCfg,
          nData, log, last>>

graphVars == <<counter, gnodes, edges>>
traceVars == <<trState, trRoot, trTok>>
spanVars == <<spCount, spTrace, spParent, nSeq, nDepth, spEntered, spEnters, spTok>>
nodeVars == <<nStatus, nErr>>
ctxVars == <<ctxCount, ctxTrace, ctxNode, ctxEntered, ctxWrapped, ctxSnap>>
brVars == <<brState, brCtx, brKind, pend>>
ghostVars == <<spBefore, trBefore>>
finVars == <<trEnd, saveCalls, stored>>
obsVars == <<warnings, log>>
dataVars == <<cfg, spCfg, nData>>

\* op: the call; span, trace, arg, exc: what it was called on and with; out: "ok"
\* or the error its caller sees; open: the scope was entered when exit was called;
\* lifo: it was the innermost open scope of the calling context; pre: the ambient
\* <<trace, node>> just before that scope was entered; steps: what a trace scope
\* exit did, in order; ty: the edge_type argument of link ("default": not given),
\* or "capture" for a call wrapped with capture_return; val: the value handed to
\* input / output, or what the wrapped function returned; loaded: the TraceGraph
\* that trace_from_json returned
NoLast == [op |-> "init", br |-> 0, span |-> NoNode, trace |-> NoTrace, arg |-> NoNode,
           exc |-> NoErr, out |-> "ok", open |-> FALSE, lifo |-> FALSE,
           pre |-> <<NoTrace, NoNode>>, steps |-> <<>>, ty |-> "none", val |-> NoValue,
           loaded |-> NoGraph]

\* no call under way on the branch.  pc: the statement a held thread runs next;
\* span, trace, parent: the Span the call works on; value: what line 48 of
\* next_sequence_number read; read: what line 49 read; exc: the error handed to
\* __exit__; ok: storage.save will not raise; i: the hook _finalize's loop is at;
\* ret: what the caller will observe (the fields known when the call was made);
\* sync: for a call made through __aenter__ / __aexit__, what __enter__ /
\* __exit__ called in its place would have written and returned
NoPend == [active |-> FALSE, pc |-> "none", span |-> NoNode, trace |-> NoTrace,
           parent |-> NoNode, value |-> 0, read |-> 0, exc |-> NoErr, ok |-> TRUE,
           i |-> 1, ret |-> NoLast, sync |-> <<>>]

InitAll(n, hs, config) ==
    /\ counter = [t \in TraceIds |-> 0]
    /\ gnodes = [t \in TraceIds |-> {}]
    /\ edges = [t \in TraceIds |-> <<>>]
    /\ trState = [t \in TraceIds |-> "free"]
    /\ trRoot = [t \in TraceIds |-> NoNode]
    /\ trTok = [t \in TraceIds |-> [tr |-> NoTok, nd |-> NoTok]]
    /\ spCount = 0
    /\ spTrace = [s \in SpanIds |-> NoTrace]
    /\ spParent = [s \in SpanIds |-> NoNode]
    /\ nSeq = [s \in SpanIds |-> 0]
    /\ nDepth = [s \in SpanIds |-> 0]
    /\ nStatus = [s \in SpanIds |-> "pending"]
    /\ nErr = [s \in SpanIds |-> NoErrFields]
    /\ spEntered = [s \in SpanIds |-> FALSE]
    /\ spEnters = [s \in SpanIds |-> 0]
    /\ spTok = [s \in SpanIds |-> NoTok]
    /\ ctxCount = 1
    /\ ctxTrace = [c \in CtxIds |-> NoTrace]
    /\ ctxNode = [c \in CtxIds |-> NoNode]
    /\ ctxEntered = [c \in CtxIds |-> FALSE]
    /\ ctxWrapped = [c \in CtxIds |-> FALSE]
    /\ ctxSnap = [c \in CtxIds |-> <<NoTrace, NoNode>>]
    /\ brState = [b \in Branches |-> IF b = MainBranch THEN "running" ELSE "idle"]
    /\ brCtx = [b \in Branches |-> IF b = MainBranch THEN MainCtx ELSE NoCtx]
    /\ brKind = [b \in Branches |-> IF b = MainBranch THEN "main" ELSE "task"]
    /\ brFresh = [b \in Branches |-> FALSE]
    /\ pend = [b \in Branches |-> NoPend]
    /\ budget = n
    /\ spBefore = [s \in SpanIds |-> <<NoTrace, NoNode>>]
    /\ trBefore = [t \in TraceIds |-> <<NoTrace, NoNode>>]
    /\ trEnd = [t \in TraceIds |-> 0]
    /\ saveCalls = [t \in TraceIds |-> 0]
    /\ stored = {}
    /\ warnings = 0
    /\ hooks = hs
    /\ spanTakesHooks \in BOOLEAN
    /\ cfg = config
    /\ spCfg = [s \in SpanIds |-> DefaultConfig]
    /\ nData = [s \in SpanIds |-> NoData]
    /\ log = <<>>
    /\ last = NoLast

InitWith(n, hs) == InitAll(n, hs, DefaultConfig)

\* ------------------------------------------------------- ambient context
\* get_current_trace / get_current_node, read in Context c
GetCurrentTrace(c) == ctxTrace[c]
GetCurrentNode(c) == ctxNode[c]
Amb(c) == <<GetCurrentTrace(c), GetCurrentNode(c)>>

\* push_current_*: ContextVar.set returns a Token holding the Context and the old value
PushToken(c, old) == [ctx |-> c, old |-> old, used |-> FALSE]

IsToken(tok) == tok.ctx # NoCtx

\* reset_current_*: ContextVar.reset(token) in Context c.  A used token raises
\* RuntimeError, a token made in another Context raises ValueError, else the
\* old value is restored and the token is marked used.
ResetOutcome(tok, c) ==
    IF tok.used THEN "RuntimeError"
    ELSE IF tok.ctx # c THEN "ValueError"
    ELSE "ok"

\* a reset that clears the variable in place of restoring the token's old value
MutResetValue(tok) == NoNode

\* the value of the variable after a successful reset
ResetValue(tok) == tok.old

UseToken(tok) == [tok EXCEPT !.used = TRUE]

\* -------------------------------------------------------------- branches
\* the OS thread a branch runs on: asyncio tasks share the main thread
Thread(b) == IF brKind[b] = "thread" THEN b ELSE MainBranch

\* A branch can make a call when it is running and no branch of its own thread
\* is inside a call (cooperative tasks never interleave inside a call).
CanCall(b) ==
    /\ brState[b] = "running"
    /\ \A b2 \in Branches : pend[b2].active => Thread(b2) # Thread(b)

\* another thread can be scheduled in the middle of a call made by b
Preemptible(b) == \E b2 \in Branches : brState[b2] = "running" /\ Thread(b2) # Thread(b)

\* every call of the host is counted against the budget
Spend == budget > 0 /\ budget' = budget - 1

Touch(b) == Spend /\ brFresh' = [brFresh EXCEPT ![b] = FALSE]

Called(op, b, s, t, exc, out) ==
    last' = [NoLast EXCEPT !.op = op, !.br = b, !.span = s, !.trace = t, !.exc = exc,
                           !.out = out]

CalledWith(op, b, s, t, arg, out) ==
    last' = [NoLast EXCEPT !.op = op, !.br = b, !.span = s, !.trace = t, !.arg = arg,
                           !.out = out]

\* ------------------------------------------------------------ TraceGraph
\* next_sequence_number: value = self._sequence_counter; self._sequence_counter += 1
SequenceValue(t) == counter[t]

\* a counter that skips a number at every draw
MutIncrementCounter(value) == value + 2

\* a draw that leaves the counter where it was
MutKeepCounter(value) == value

IncrementCounter(value) == value + 1


\* add_node: self.nodes[node.id] = node
AddNode(nodes, n) == nodes \cup {n}

\* an add_edge that tests the source only
MutEdgeEndpointsKnown(nodes, src, tgt) == src \in nodes

\* add_edge's two membership tests: both endpoints are keys of nodes
EdgeEndpointsKnown(nodes, src, tgt) == src \in nodes /\ tgt \in nodes

\* a TraceGraph without the model validator
MutValidateEdgeReferences(nodes, es) == TRUE

\* validate_edge_references: every edge of the constructed graph has known endpoints
ValidateEdgeReferences(nodes, es) ==
    \A i \in 1..Len(es) : es[i][1] \in nodes /\ es[i][2] \in nodes

\* ------------------------------------------------------- hook dispatch
\* a dispatch loop that stops at the first callback that raises
MutDeliveredCount(hs) ==
    IF \E i \in 1..Len(hs) : hs[i] = "broken"
    THEN CHOOSE i \in 1..Len(hs) : hs[i] = "broken" /\ \A j \in 1..(i - 1) : hs[j] # "broken"
    ELSE Len(hs)

\* for hook in self._hooks: try: hook.on_...(...) except Exception: warnings.warn(...)
\* how many hooks of the list get the event: a callback that raises does not end the loop
DeliveredCount(hs) == Len(hs)

\* hook.on_trace_completed(self.trace_graph) for each hook, in list order: the
\* log entry of one callback (node: the Node handed to a node callback, none here)
TraceCompleted(i, t) == [hook |-> i, ev |-> "trace_completed", node |-> NoNode, trace |-> t]

HookCalls(hs, t) == [i \in 1..DeliveredCount(hs) |-> TraceCompleted(i, t)]

\* one warning per callback that raised
HookWarnings(hs) == Cardinality({i \in 1..DeliveredCount(hs) : hs[i] = "broken"})

\* ------------------------------------------------------------------ Span
\* Span.__init__: parent_node if given, else the ambient current node
ParentNode(c, p) == IF p # NoNode THEN p ELSE GetCurrentNode(c)

\* a depth that only tells roots from non-roots
MutNodeDepth(parent) == IF parent # NoNode THEN 1 ELSE 0

\* depth = parent_node.depth + 1, or 0 without a parent
NodeDepth(parent) == IF parent # NoNode THEN nDepth[parent] + 1 ELSE 0

\* The rest of Span.__init__ once the sequence number is drawn: the Node is
\* allocated (status pending, no token, not entered) and nothing is registered.
NewSpan(s, t, parent, value, config) ==
    /\ spCount' = s
    /\ spCfg' = [spCfg EXCEPT ![s] = config]
    /\ spTrace' = [spTrace EXCEPT ![s] = t]
    /\ spParent' = [spParent EXCEPT ![s] = parent]
    /\ nSeq' = [nSeq EXCEPT ![s] = value]
    /\ nDepth' = [nDepth EXCEPT ![s] = NodeDepth(parent)]

\* Spans being constructed right now by threads that are switched out
Pending == {b \in Branches : pend[b].active /\ pend[b].pc \in {"s49", "s49w"}}
CanAllocate == spCount + Cardinality(Pending) < MaxSpans

\* Span.node(name): a child Span of this Span's trace with parent_node = this node,
\* constructed without a thread switch inside next_sequence_number.
SpanNode(b, ps) ==
    /\ CanCall(b)
    /\ ps \in 1..spCount
    /\ CanAllocate
    /\ LET t == spTrace[ps]
           s == spCount + 1
           value == SequenceValue(t)
       IN /\ counter' = [counter EXCEPT ![t] = IncrementCounter(value)]
          /\ NewSpan(s, t, ParentNode(brCtx[b], ps), value, spCfg[ps])
          /\ Called("construct", b, s, t, NoErr, "ok")
    /\ Touch(b)
    /\ UNCHANGED <<gnodes, edges, traceVars, spEntered, spEnters, spTok, nodeVars, ctxVars,
                   brVars, ghostVars, finVars, obsVars, hooks, spanTakesHooks,
                   cfg, nData>>

\* Span.node on a thread that is switched out inside next_sequence_number,
\* after value = self._sequence_counter (line 48) and before line 49 runs.
SpanNodeBegin(b, ps) ==
    /\ CanCall(b)
    /\ Preemptible(b)
    /\ ps \in 1..spCount
    /\ CanAllocate
    /\ pend' = [pend EXCEPT ![b] =
                   [NoPend EXCEPT !.active = TRUE, !.pc = "s49", !.trace = spTrace[ps],
                                  !.parent = ParentNode(brCtx[b], ps),
                                  !.value = SequenceValue(spTrace[ps]),
                                  !.ret = [NoLast EXCEPT !.op = "construct", !.br = b,
                                                         !.trace = spTrace[ps]]]]
    /\ Touch(b)
    /\ UNCHANGED <<graphVars, traceVars, spanVars, nodeVars, ctxVars, brState, brCtx, brKind,
                   ghostVars, finVars, obsVars, hooks, spanTakesHooks,
                   dataVars, last>>

\* Span.__enter__ of Span s (trace t, parent p) in Context c whose current node
\* is cur: the new values of what it writes.  An already entered Span returns
\* itself.  Otherwise: status running, add_node, the implicit parent -> self
\* edge through add_edge (which raises ValueError on an unknown endpoint and so
\* ends the call there), push of the node as ambient current node, _entered.
EnterEffect(s, t, p, entered, c, cur) ==
    LET nodes1 == AddNode(gnodes[t], s)
        edgeOk == p = NoNode \/ EdgeEndpointsKnown(nodes1, p, s)
    IN IF entered
       THEN [out |-> "ok", ran |-> FALSE, status |-> nStatus[s], nodes |-> gnodes[t],
             edges |-> edges[t], tok |-> spTok[s], node |-> cur, entered |-> TRUE]
       ELSE [out |-> IF edgeOk THEN "ok" ELSE "ValueError",
             ran |-> TRUE,
             status |-> "running",
             nodes |-> nodes1,
             edges |-> IF edgeOk /\ p # NoNode
                       THEN Append(edges[t], <<p, s, "caused_by">>)
                       ELSE edges[t],
             tok |-> IF edgeOk THEN PushToken(c, cur) ELSE spTok[s],
             node |-> IF edgeOk THEN s ELSE cur,
             entered |-> edgeOk]

SpanEnter(b, s) ==
    /\ CanCall(b)
    /\ s \in 1..spCount
    /\ LET c == brCtx[b]
           t == spTrace[s]
           e == EnterEffect(s, t, spParent[s], spEntered[s], c, GetCurrentNode(c))
       IN /\ nStatus' = [nStatus EXCEPT ![s] = e.status]
          /\ gnodes' = [gnodes EXCEPT ![t] = e.nodes]
          /\ edges' = [edges EXCEPT ![t] = e.edges]
          /\ spTok' = [spTok EXCEPT ![s] = e.tok]
          /\ ctxNode' = [ctxNode EXCEPT ![c] = e.node]
          /\ spEntered' = [spEntered EXCEPT ![s] = e.entered]
          /\ spEnters' = [spEnters EXCEPT ![s] = IF e.ran THEN @ + 1 ELSE @]
          /\ spBefore' = [spBefore EXCEPT ![s] = IF e.ran /\ e.entered THEN Amb(c) ELSE @]
          /\ Called("enter", b, s, t, NoErr, e.out)
    /\ Touch(b)
    /\ UNCHANGED <<counter, traceVars, spCount, spTrace, spParent, nSeq, nDepth, nErr,
                   ctxCount, ctxTrace, ctxEntered, ctxWrapped, ctxSnap, brVars, trBefore,
                   finVars, obsVars, hooks, spanTakesHooks,
                   dataVars>>

\* an __exit__ that completes the node whatever its status is
MutExitCompletes(st, exc) == IF exc = NoErr THEN "completed" ELSE "failed"

\* an __exit__ that takes no notice of the error
MutExitStatus(st, exc) == IF st = "running" THEN "completed" ELSE st

\* Span.__exit__, the status it leaves: completed only if still running; failed on an error
ExitStatus(st, exc) ==
    IF exc = NoErr
    THEN (IF st = "running" THEN "completed" ELSE st)
    ELSE "failed"

\* str(exc) raises (line 116), which takes __exit__ to its except branch
StrRaises(exc) == exc = "BadStrError"

\* error = str(exc), error_type = exc.__class__.__name__, error_traceback = the
\* formatted traceback, assigned in this order inside the try block: when str(exc)
\* raises, none of the three is assigned
ErrorFields(old, exc) ==
    IF StrRaises(exc) THEN old
    ELSE [error |-> "message", error_type |-> exc, error_traceback |-> "traceback"]

ExitErr(old, exc) == IF exc = NoErr THEN old ELSE ErrorFields(old, exc)

\* except Exception: warnings.warn("... internal error finalizing span ..."): the
\* warnings one __exit__ emits
ExitWarnings(exc) == IF exc # NoErr /\ StrRaises(exc) THEN 1 ELSE 0

\* __exit__ returns False: the error of the scope is not suppressed
ExitSuppresses == FALSE

\* if self._node_token is not None: reset_current_node(self._node_token)
ExitReset(s, c) == IF IsToken(spTok[s]) THEN ResetOutcome(spTok[s], c) ELSE "skip"

\* an __exit__ that returns True and so swallows the scope's error
MutExitOut(exc, reset) == IF reset \notin {"ok", "skip"} THEN reset ELSE "ok"

\* what the caller of __exit__ observes: an error raised by the reset, else the
\* scope's own error going on (the with statement re-raises it), else nothing
ExitOut(exc, reset) ==
    IF reset \notin {"ok", "skip"} THEN reset
    ELSE IF exc # NoErr /\ ~ExitSuppresses THEN exc
    ELSE "ok"

\* the Span is the innermost open scope of Context c, entered in c
InnermostIn(s, c) == spEntered[s] /\ spTok[s].ctx = c /\ GetCurrentNode(c) = s

\* Span.__exit__(exc) called in Context c: the new values of what it writes
ExitEffect(s, c, exc) ==
    LET r == ExitReset(s, c)
    IN [status |-> ExitStatus(nStatus[s], exc),
        err |-> ExitErr(nErr[s], exc),
        warn |-> ExitWarnings(exc),
        reset |-> r,
        node |-> IF r = "ok" THEN ResetValue(spTok[s]) ELSE GetCurrentNode(c),
        tok |-> IF r = "ok" THEN UseToken(spTok[s]) ELSE spTok[s],
        entered |-> IF r \in {"ok", "skip"} THEN FALSE ELSE spEntered[s],
        out |-> ExitOut(exc, r)]

SpanExit(b, s, exc) ==
    /\ CanCall(b)
    /\ s \in 1..spCount
    /\ spEnters[s] > 0
    /\ LET c == brCtx[b]
           e == ExitEffect(s, c, exc)
       IN /\ nStatus' = [nStatus EXCEPT ![s] = e.status]
          /\ nErr' = [nErr EXCEPT ![s] = e.err]
          /\ ctxNode' = [ctxNode EXCEPT ![c] = e.node]
          /\ spTok' = [spTok EXCEPT ![s] = e.tok]
          /\ spEntered' = [spEntered EXCEPT ![s] = e.entered]
          /\ warnings' = warnings + e.warn
          /\ last' = [NoLast EXCEPT !.op = "exit", !.br = b, !.span = s, !.trace = spTrace[s],
                                    !.exc = exc, !.out = e.out, !.open = spEntered[s],
                                    !.lifo = InnermostIn(s, c), !.pre = spBefore[s]]
    /\ Touch(b)
    /\ UNCHANGED <<graphVars, traceVars, spCount, spTrace, spParent, nSeq, nDepth, spEnters,
                   ctxCount, ctxTrace, ctxEntered, ctxWrapped, ctxSnap, brVars,
                   ghostVars, finVars, log, hooks, spanTakesHooks,
                   dataVars>>

\* Span.set_status(status): the status is assigned as given
SetStatus(b, s, st) ==
    /\ CanCall(b)
    /\ s \in 1..spCount
    /\ nStatus' = [nStatus EXCEPT ![s] = st]
    /\ Called("set_status", b, s, spTrace[s], NoErr, "ok")
    /\ Touch(b)
    /\ UNCHANGED <<graphVars, traceVars, spanVars, nErr, ctxVars, brVars, ghostVars, finVars, obsVars, hooks, spanTakesHooks,
                   dataVars>>

\* Span.link(target, edge_type=EdgeType.DATA_FLOW)
DefaultLinkType == "data_flow"
LinkTypes == {"default", "retry_of"}
\* a link that takes no notice of the edge_type argument
MutLinkType(ty) == DefaultLinkType

\* edge_type=edge_type: the argument, or the default of the signature
LinkType(ty) == IF ty = "default" THEN DefaultLinkType ELSE ty

\* Span.link: add_edge on the Span's trace of self -> target; ValueError on an
\* unknown endpoint, and then nothing is appended
SpanLink(b, s, target, ty) ==
    /\ CanCall(b)
    /\ s \in 1..spCount /\ target \in 1..spCount
    /\ LET t == spTrace[s]
       IN IF EdgeEndpointsKnown(gnodes[t], s, target)
          THEN /\ edges' = [edges EXCEPT ![t] = Append(@, <<s, target, LinkType(ty)>>)]
               /\ last' = [NoLast EXCEPT !.op = "link", !.br = b, !.span = s, !.trace = t,
                                         !.arg = target, !.ty = ty, !.out = "ok"]
          ELSE /\ edges' = edges
               /\ last' = [NoLast EXCEPT !.op = "link", !.br = b, !.span = s, !.trace = t,
                                         !.arg = target, !.ty = ty, !.out = "ValueError"]
    /\ Touch(b)
    /\ UNCHANGED <<counter, gnodes, traceVars, spanVars, nodeVars, ctxVars, brVars, ghostVars,
                   finVars, obsVars, hooks, spanTakesHooks,
                   dataVars>>

\* TraceGraph.add_node called directly with the Node of a constructed Span
DirectAddNode(b, t, n) ==
    /\ CanCall(b)
    /\ trState[t] # "free"
    /\ n \in 1..spCount
    /\ gnodes' = [gnodes EXCEPT ![t] = AddNode(@, n)]
    /\ Called("add_node", b, n, t, NoErr, "ok")
    /\ Touch(b)
    /\ UNCHANGED <<counter, edges, traceVars, spanVars, nodeVars, ctxVars, brVars, ghostVars,
                   finVars, obsVars, hooks, spanTakesHooks,
                   dataVars>>

\* TraceGraph.add_edge called directly with any pair of ids
DirectAddEdge(b, t, src, tgt) ==
    /\ CanCall(b)
    /\ trState[t] # "free"
    /\ IF EdgeEndpointsKnown(gnodes[t], src, tgt)
       THEN /\ edges' = [edges EXCEPT ![t] = Append(@, <<src, tgt, "caused_by">>)]
            /\ CalledWith("add_edge", b, src, t, tgt, "ok")
       ELSE /\ edges' = edges
            /\ CalledWith("add_edge", b, src, t, tgt, "ValueError")
    /\ Touch(b)
    /\ UNCHANGED <<counter, gnodes, traceVars, spanVars, nodeVars, ctxVars, brVars, ghostVars,
                   finVars, obsVars, hooks, spanTakesHooks,
                   dataVars>>

\* TraceGraph(name=..., nodes=ns, edges=es) built directly from Nodes of
\* constructed Spans and a list of edges: the model validator
\* validate_edge_references raises ValueError (no graph is made) when an edge
\* names an id that is no key of nodes.
EdgeLists == {<<>>} \cup {<<<<src, tgt, "caused_by">>>> : src \in SpanIds, tgt \in SpanIds}

NewGraph(b, ns, es) ==
    /\ CanCall(b)
    /\ ns \subseteq 1..spCount
    /\ \E t \in TraceIds :
          /\ trState[t] = "free"
          /\ \A y \in TraceIds : trState[y] = "free" => t <= y
          /\ IF ValidateEdgeReferences(ns, es)
             THEN /\ gnodes' = [gnodes EXCEPT ![t] = ns]
                  /\ edges' = [edges EXCEPT ![t] = es]
                  /\ trState' = [trState EXCEPT ![t] = "graph"]
                  /\ last' = [NoLast EXCEPT !.op = "new_graph", !.br = b, !.trace = t,
                                            !.arg = <<ns, es>>, !.out = "ok"]
             ELSE /\ UNCHANGED <<gnodes, edges, trState>>
                  /\ last' = [NoLast EXCEPT !.op = "new_graph", !.br = b, !.trace = t,
                                            !.arg = <<ns, es>>, !.out = "ValueError"]
    /\ Touch(b)
    /\ UNCHANGED <<counter, trRoot, trTok, spanVars, nodeVars, ctxVars, brVars, ghostVars,
                   finVars, obsVars, hooks, spanTakesHooks,
                   dataVars>>

\* ------------------------------------------------------- data capture
\* Values handed to input() / output().  A string is the sequence of its
\* characters.  kind "str": a str; "list": a list of one-character strings;
\* "tuple": a tuple of them; "object": a value json.dumps rejects, chars being
\* its repr().
Chars == {"a", "b"}
Strings == UNION {[1..k -> Chars] : k \in 0..MaxStr}
ValueKinds == {"str", "list", "tuple", "object"}
Values == {[kind |-> k, chars |-> cs] : k \in ValueKinds, cs \in Strings}

\* the limits a TracerConfig can hold: None, or an int up to MaxLimit
Limits == {NoLimit} \cup {[set |-> TRUE, n |-> n] : n \in 0..MaxLimit}
Configs == [max_input_size : Limits, max_output_size : Limits]

NonSerializableTag == <<" ", "[", "N", "O", "N", "-", "S", "E", "R", "I", "A", "L", "I", "Z", "A", "B", "L", "E", "]">>
TruncatedMark == <<".", ".", ".", " ", "[", "T", "R", "U", "N", "C", "A", "T", "E", "D", ":", " ", "o", "r", "i", "g", "i", "n", "a", "l", "_", "s", "i", "z", "e", "=">>
DigitChar(d) == <<"0", "1", "2", "3", "4", "5", "6", "7", "8", "9">>[d + 1]
RECURSIVE Digits(_)
\* str(n) for n >= 0
Digits(n) == IF n < 10 THEN <<DigitChar(n)>> ELSE Digits(n \div 10) \o <<DigitChar(n % 10)>>

\* json.dumps(value) succeeds
JsonDumps(v) == v.kind # "object"

\* _safe_value: a str (None, int, float, bool) as it is; anything else as it is
\* when json.dumps accepts it, else f"{value!r} [NON-SERIALIZABLE]"
SafeValue(v) ==
    IF v.kind = "str" THEN v
    ELSE IF JsonDumps(v) THEN v
    ELSE [kind |-> "str", chars |-> v.chars \o NonSerializableTag]

\* a truncation that keeps the last characters
MutKeptPart(cs, n) == SubSeq(cs, Len(cs) - n + 1, Len(cs))

\* value[:limit]
KeptPart(cs, n) == SubSeq(cs, 1, n)

\* _truncate_if_needed(value, limit)
TruncateIfNeeded(v, limit) ==
    IF ~limit.set \/ limit.n <= 0 THEN v
    ELSE IF v.kind # "str" THEN v
    ELSE IF Len(v.chars) <= limit.n THEN v
    ELSE [kind |-> "str",
          chars |-> KeptPart(v.chars, limit.n) \o TruncatedMark
                    \o Digits(Len(v.chars)) \o <<"]">>]

\* an output() that takes the input limit
MutOutputLimit(config) == config.max_input_size

InputLimit(config) == config.max_input_size
OutputLimit(config) == config.max_output_size

\* Span.input(key=value): input_data.update({key: _truncate_if_needed(_safe_value(value), limit)})
SpanInput(b, s, v) ==
    /\ CanCall(b)
    /\ s \in 1..spCount
    /\ nData' = [nData EXCEPT ![s].input = TruncateIfNeeded(SafeValue(v), InputLimit(spCfg[s]))]
    /\ last' = [NoLast EXCEPT !.op = "input", !.br = b, !.span = s, !.trace = spTrace[s],
                              !.val = v]
    /\ Touch(b)
    /\ UNCHANGED <<graphVars, traceVars, spanVars, nodeVars, ctxVars, brVars, ghostVars,
                   finVars, obsVars, hooks, spanTakesHooks, cfg, spCfg>>

\* Span.output(key=value), with max_output_size
SpanOutput(b, s, v) ==
    /\ CanCall(b)
    /\ s \in 1..spCount
    /\ nData' = [nData EXCEPT ![s].output = TruncateIfNeeded(SafeValue(v), OutputLimit(spCfg[s]))]
    /\ last' = [NoLast EXCEPT !.op = "output", !.br = b, !.span = s, !.trace = spTrace[s],
                              !.val = v]
    /\ Touch(b)
    /\ UNCHANGED <<graphVars, traceVars, spanVars, nodeVars, ctxVars, brVars, ghostVars,
                   finVars, obsVars, hooks, spanTakesHooks, cfg, spCfg>>

\* ------------------------------------------------------------ JSON form
\* the fields of a Node (node.py) that the model keeps
NodeFields(s) ==
    [sequence_number |-> nSeq[s], status |-> nStatus[s], parent_id |-> spParent[s],
     depth |-> nDepth[s], input_data |-> nData[s].input, output_data |-> nData[s].output,
     error |-> nErr[s]]

\* the TraceGraph t: trace_id, the nodes map, the edges list and the private
\* _sequence_counter
Graph(t) ==
    [trace_id |-> t, nodes |-> [s \in gnodes[t] |-> NodeFields(s)], edges |-> edges[t],
     sequence_counter |-> counter[t]]

\* JSON has one array type and no tuple
JsonKind(kind) ==
    CASE kind \in {"list", "tuple"} -> "array"
      [] kind = "str" -> "string"
      [] OTHER -> kind

\* a JSON array is parsed into a list (dict[str, object] takes any value)
PyKind(json) ==
    CASE json = "array" -> "list"
      [] json = "string" -> "str"
      [] OTHER -> json

DumpValue(v) == [json |-> JsonKind(v.kind), chars |-> v.chars]
LoadValue(j) == [kind |-> PyKind(j.json), chars |-> j.chars]

DumpNode(n) ==
    [n EXCEPT !.input_data = DumpValue(@), !.output_data = DumpValue(@)]
LoadNode(j) ==
    [j EXCEPT !.input_data = LoadValue(@), !.output_data = LoadValue(@)]

\* trace.model_dump_json(): the private _sequence_counter is not written
trace_to_json(g) ==
    [trace_id |-> g.trace_id,
     nodes |-> [s \in DOMAIN g.nodes |-> DumpNode(g.nodes[s])],
     edges |-> g.edges]

\* TraceGraph.model_validate_json(payload): a new TraceGraph, whose private
\* _sequence_counter has its default
trace_from_json(payload) ==
    [trace_id |-> payload.trace_id,
     nodes |-> [s \in DOMAIN payload.nodes |-> LoadNode(payload.nodes[s])],
     edges |-> payload.edges,
     sequence_counter |-> 0]

\* trace_from_json(trace_to_json(trace)) on the graph of a trace scope
RoundTrip(b, t) ==
    /\ CanCall(b)
    /\ trState[t] # "free"
    /\ last' = [NoLast EXCEPT !.op = "round_trip", !.br = b, !.trace = t,
                              !.loaded = trace_from_json(trace_to_json(Graph(t)))]
    /\ Touch(b)
    /\ UNCHANGED <<graphVars, traceVars, spanVars, nodeVars, ctxVars, brVars, ghostVars,
                   finVars, obsVars, hooks, spanTakesHooks, dataVars>>

\* next_sequence_number called on the TraceGraph that trace_from_json returned
\* (last.arg: the value it returns)
LoadedNextSequenceNumber(b) ==
    /\ CanCall(b)
    /\ last.op \in {"round_trip", "next_sequence_number"}
    /\ last' = [NoLast EXCEPT !.op = "next_sequence_number", !.br = b,
                              !.trace = last.trace,
                              !.arg = last.loaded.sequence_counter,
                              !.loaded = [last.loaded EXCEPT !.sequence_counter =
                                             IncrementCounter(@)]]
    /\ Touch(b)
    /\ UNCHANGED <<graphVars, traceVars, spanVars, nodeVars, ctxVars, brVars, ghostVars,
                   finVars, obsVars, hooks, spanTakesHooks, dataVars>>

\* ----------------------------------------------------------- trace scope
FreeTraces == {t \in TraceIds : trState[t] = "free"}

\* TraceContext.__init__ builds the root Span with no parent_node argument, so
\* Span.__init__ takes the ambient current node of the constructing context
RootParent(c) == ParentNode(c, NoNode)

\* Tracer.trace(name) -> TraceContext.__init__: a new TraceGraph and its root
\* Span (the first sequence number of the new graph).  Nothing is pushed yet.
\* The root Span is built with Span(..., config=tracer.config, hooks=self._hooks):
\* a Span.__init__ without a hooks parameter (span.py of the source tree) raises
\* TypeError there, and the TraceGraph just made is dropped with the call.
TraceCreate(b) ==
    /\ CanCall(b)
    /\ FreeTraces # {}
    /\ CanAllocate
    /\ IF spanTakesHooks
       THEN LET t == CHOOSE x \in FreeTraces : \A y \in FreeTraces : x <= y
                s == spCount + 1
                value == SequenceValue(t)
            IN /\ counter' = [counter EXCEPT ![t] = IncrementCounter(value)]
               /\ NewSpan(s, t, RootParent(brCtx[b]), value, cfg)
               /\ trState' = [trState EXCEPT ![t] = "created"]
               /\ trRoot' = [trRoot EXCEPT ![t] = s]
               /\ Called("trace", b, s, t, NoErr, "ok")
       ELSE /\ Called("trace", b, NoNode, NoTrace, NoErr, "TypeError")
            /\ UNCHANGED <<counter, spCount, spCfg, spTrace, spParent, nSeq, nDepth, trState,
                           trRoot>>
    /\ Touch(b)
    /\ UNCHANGED <<gnodes, edges, trTok, spEntered, spEnters, spTok, nodeVars, ctxVars,
                   brVars, ghostVars, finVars, obsVars, hooks, spanTakesHooks,
                   cfg, nData>>

\* TraceContext.__enter__: push the trace, push node None, enter the root Span.
\* If the root Span's __enter__ raises, the error leaves __enter__ with both
\* pushes made (the with statement then never calls __exit__).
TraceEnter(b, t) ==
    /\ CanCall(b)
    /\ trState[t] = "created"
    /\ LET c == brCtx[b]
           s == trRoot[t]
           e == EnterEffect(s, t, spParent[s], spEntered[s], c, NoNode)
       IN /\ trTok' = [trTok EXCEPT ![t] = [tr |-> PushToken(c, GetCurrentTrace(c)),
                                            nd |-> PushToken(c, GetCurrentNode(c))]]
          /\ ctxTrace' = [ctxTrace EXCEPT ![c] = t]
          /\ nStatus' = [nStatus EXCEPT ![s] = e.status]
          /\ gnodes' = [gnodes EXCEPT ![t] = e.nodes]
          /\ edges' = [edges EXCEPT ![t] = e.edges]
          /\ spTok' = [spTok EXCEPT ![s] = e.tok]
          /\ ctxNode' = [ctxNode EXCEPT ![c] = e.node]
          /\ spEntered' = [spEntered EXCEPT ![s] = e.entered]
          /\ spEnters' = [spEnters EXCEPT ![s] = IF e.ran THEN @ + 1 ELSE @]
          /\ spBefore' = [spBefore EXCEPT ![s] =
                             IF e.ran /\ e.entered THEN <<t, NoNode>> ELSE @]
          /\ trBefore' = [trBefore EXCEPT ![t] = Amb(c)]
          /\ trState' = [trState EXCEPT ![t] = IF e.out = "ok" THEN "entered" ELSE "broken"]
          /\ Called("trace_enter", b, s, t, NoErr, e.out)
    /\ Touch(b)
    /\ UNCHANGED <<counter, trRoot, spCount, spTrace, spParent, nSeq, nDepth, nErr, ctxCount,
                   ctxEntered, ctxWrapped, ctxSnap, brVars, finVars, obsVars, hooks,
                   spanTakesHooks, dataVars>>

\* the trace scope is the innermost open scope of Context c
TraceInnermostIn(t, c) ==
    /\ InnermostIn(trRoot[t], c)
    /\ GetCurrentTrace(c) = t
    /\ trTok[t].tr.ctx = c /\ trTok[t].nd.ctx = c

\* an __exit__ that finalizes only when the body did not raise
MutFinalizes(resetsDone, exc) == resetsDone /\ exc = NoErr

\* self._finalize() is reached once the root exit and both resets have not
\* raised, whether or not the body raised
Finalizes(resetsDone, exc) == resetsDone

\* how far TraceContext.__exit__ came before _finalize
ExitSteps(ok1, ok2, ok3) ==
    (IF ok1 THEN <<"root_exit">> ELSE <<>>)
    \o (IF ok2 THEN <<"reset_node">> ELSE <<>>)
    \o (IF ok3 THEN <<"reset_trace">> ELSE <<>>)

\* a _finalize that notifies the hooks before it stamps and saves
MutFinalizeSteps(saveOk) ==
    [i \in 1..DeliveredCount(hooks) |-> "trace_completed"]
    \o <<"end_time", "save">> \o (IF saveOk THEN <<>> ELSE <<"save_warning">>)

\* _finalize: end_time, storage.save (a raise becomes a warning), then every
\* hook's on_trace_completed
FinalizeSteps(saveOk) ==
    <<"end_time", "save">> \o (IF saveOk THEN <<>> ELSE <<"save_warning">>)
    \o [i \in 1..DeliveredCount(hooks) |-> "trace_completed"]

\* a _finalize that lets the error of storage.save go on
MutSaveOutcome(saveOk, out) == IF saveOk THEN out ELSE "OSError"

\* except Exception around storage.save: its error never leaves _finalize
SaveOutcome(saveOk, out) == out

\* TraceContext.__exit__ in Context c: root_span.__exit__, reset of the node
\* token, reset of the trace token, _finalize.  A reset that raises ends the
\* call there.  r.stage is how far it came.
TraceExitEffect(t, c, exc) ==
    LET e == ExitEffect(trRoot[t], c, exc)
        r2 == IF IsToken(trTok[t].nd) THEN ResetOutcome(trTok[t].nd, c) ELSE "skip"
        r3 == IF IsToken(trTok[t].tr) THEN ResetOutcome(trTok[t].tr, c) ELSE "skip"
        ok1 == e.reset \in {"ok", "skip"}
        ok2 == ok1 /\ r2 \in {"ok", "skip"}
        ok3 == ok2 /\ r3 \in {"ok", "skip"}
    IN [root |-> e,
        node |-> IF ok2 /\ r2 = "ok" THEN ResetValue(trTok[t].nd) ELSE e.node,
        trace |-> IF ok3 /\ r3 = "ok" THEN ResetValue(trTok[t].tr) ELSE GetCurrentTrace(c),
        ndTok |-> IF ok2 /\ r2 = "ok" THEN UseToken(trTok[t].nd) ELSE trTok[t].nd,
        trTok |-> IF ok3 /\ r3 = "ok" THEN UseToken(trTok[t].tr) ELSE trTok[t].tr,
        rootDone |-> ok1,
        finalized |-> Finalizes(ok3, exc),
        steps |-> ExitSteps(ok1, ok2, ok3),
        out |-> IF ~ok1 THEN e.out
                ELSE IF ~ok2 THEN r2
                ELSE IF ~ok3 THEN r3
                ELSE e.out]

\* TraceContext.__exit__ with _finalize: end_time is stamped and storage.save is
\* called; a save that raises is turned into a warning.
TraceExit(b, t, exc, saveOk) ==
    /\ CanCall(b)
    /\ trState[t] = "entered"
    /\ LET c == brCtx[b]
           s == trRoot[t]
           x == TraceExitEffect(t, c, exc)
       IN /\ nStatus' = [nStatus EXCEPT ![s] = x.root.status]
          /\ nErr' = [nErr EXCEPT ![s] = x.root.err]
          /\ spTok' = [spTok EXCEPT ![s] = x.root.tok]
          /\ spEntered' = [spEntered EXCEPT ![s] = x.root.entered]
          /\ ctxNode' = [ctxNode EXCEPT ![c] = x.node]
          /\ ctxTrace' = [ctxTrace EXCEPT ![c] = x.trace]
          /\ trTok' = [trTok EXCEPT ![t] = [tr |-> x.trTok, nd |-> x.ndTok]]
          /\ trState' = [trState EXCEPT ![t] = "exited"]
          /\ trEnd' = [trEnd EXCEPT ![t] = IF x.finalized THEN @ + 1 ELSE @]
          /\ saveCalls' = [saveCalls EXCEPT ![t] = IF x.finalized THEN @ + 1 ELSE @]
          /\ stored' = IF x.finalized /\ saveOk THEN stored \cup {t} ELSE stored
          /\ warnings' = warnings
                          + x.root.warn
                          + (IF x.finalized /\ ~saveOk THEN 1 ELSE 0)
                          + (IF x.finalized THEN HookWarnings(hooks) ELSE 0)
          /\ log' = IF x.finalized THEN log \o HookCalls(hooks, t) ELSE log
          /\ last' = [NoLast EXCEPT !.op = "trace_exit", !.br = b, !.span = s, !.trace = t,
                                    !.exc = exc, !.open = spEntered[s],
                                    !.out = IF x.finalized THEN SaveOutcome(saveOk, x.out)
                                            ELSE x.out,
                                    !.lifo = TraceInnermostIn(t, c), !.pre = trBefore[t],
                                    !.steps = x.steps \o (IF x.finalized
                                                          THEN FinalizeSteps(saveOk)
                                                          ELSE <<>>)]
    /\ Touch(b)
    /\ UNCHANGED <<graphVars, trRoot, spCount, spTrace, spParent, nSeq, nDepth, spEnters,
                   ctxCount, ctxEntered, ctxWrapped, ctxSnap, brVars, ghostVars, hooks, spanTakesHooks,
                   dataVars>>

\* --------------------------------------------------- concurrent branches
IdleBranches == {b \in Branches : brState[b] = "idle"}
NextBranch == CHOOSE x \in IdleBranches : \A y \in IdleBranches : x <= y

\* contextvars.copy_context(): a new Context holding the current values
CopyContext(c, new, wrapped) ==
    /\ ctxCount' = new
    /\ ctxTrace' = [ctxTrace EXCEPT ![new] = GetCurrentTrace(c)]
    /\ ctxNode' = [ctxNode EXCEPT ![new] = GetCurrentNode(c)]
    /\ ctxWrapped' = [ctxWrapped EXCEPT ![new] = wrapped]
    /\ ctxSnap' = [ctxSnap EXCEPT ![new] = Amb(c)]

\* tasks that run in the Context of their creator
MutTaskContext(parent, copy) == parent

\* the Context an asyncio task runs in: the copy made when the task was created
TaskContext(parent, copy) == copy

\* asyncio.gather / create_task from a coroutine: the new task runs in its own
\* copy of the creating task's Context, on the same thread
ForkTask(b) ==
    /\ Spend
    /\ CanCall(b)
    /\ brKind[b] # "thread"
    /\ IdleBranches # {}
    /\ ctxCount < MaxCtx
    /\ LET nb == NextBranch
           new == ctxCount + 1
       IN /\ CopyContext(brCtx[b], new, FALSE)
          /\ brState' = [brState EXCEPT ![nb] = "running"]
          /\ brCtx' = [brCtx EXCEPT ![nb] = TaskContext(brCtx[b], new)]
          /\ brKind' = [brKind EXCEPT ![nb] = "task"]
          /\ brFresh' = [brFresh EXCEPT ![nb] = TRUE]
    /\ UNCHANGED <<graphVars, traceVars, spanVars, nodeVars, ctxEntered, pend, 
                   ghostVars, finVars, obsVars, hooks, spanTakesHooks,
                   dataVars, last>>

\* propagate_context(func): the Context is copied once, when the callable is wrapped
PropagateContext(b) ==
    /\ Spend
    /\ CanCall(b)
    /\ ctxCount < MaxCtx
    /\ CopyContext(brCtx[b], ctxCount + 1, TRUE)
    /\ UNCHANGED <<graphVars, traceVars, spanVars, nodeVars, ctxEntered, brVars, brFresh,
                   ghostVars, finVars, obsVars, hooks, spanTakesHooks,
                   dataVars, last>>

\* clear_context(): _current_trace.set(None); _current_node.set(None) in the
\* calling Context.  The tokens of the two set calls are dropped, and no open
\* scope is closed: Spans stay entered and keep their own tokens.
ClearContext(b) ==
    /\ CanCall(b)
    /\ ctxTrace' = [ctxTrace EXCEPT ![brCtx[b]] = NoTrace]
    /\ ctxNode' = [ctxNode EXCEPT ![brCtx[b]] = NoNode]
    /\ Called("clear_context", b, NoNode, NoTrace, NoErr, "ok")
    /\ Touch(b)
    /\ UNCHANGED <<graphVars, traceVars, spanVars, nodeVars, ctxCount, ctxEntered, ctxWrapped,
                   ctxSnap, brVars, ghostVars, finVars, obsVars, hooks, spanTakesHooks,
                   dataVars>>

\* wrapped(*args): copied_context.run(func): every call of one wrapped callable
\* runs in the one Context copied when it was wrapped
WrappedRunContext(cw) == cw

\* A thread calls the wrapped callable.  Context.run raises RuntimeError when
\* the Context is already entered (another call of the wrapper is running).
CallWrapped(cw) ==
    /\ Spend
    /\ cw \in 1..ctxCount
    /\ ctxWrapped[cw]
    /\ IdleBranches # {}
    /\ LET nb == NextBranch
           c == WrappedRunContext(cw)
       IN IF ctxEntered[c]
          THEN /\ brState' = [brState EXCEPT ![nb] = "failed"]
               /\ brKind' = [brKind EXCEPT ![nb] = "thread"]
               /\ UNCHANGED <<brCtx, brFresh, ctxEntered>>
          ELSE /\ brState' = [brState EXCEPT ![nb] = "running"]
               /\ brKind' = [brKind EXCEPT ![nb] = "thread"]
               /\ brCtx' = [brCtx EXCEPT ![nb] = c]
               /\ brFresh' = [brFresh EXCEPT ![nb] = TRUE]
               /\ ctxEntered' = [ctxEntered EXCEPT ![c] = TRUE]
    /\ UNCHANGED <<graphVars, traceVars, spanVars, nodeVars, ctxCount, ctxTrace, ctxNode,
                   ctxWrapped, ctxSnap, pend, ghostVars, finVars, obsVars, hooks, spanTakesHooks,
                   dataVars, last>>

\* the branch's function returns (a task finishes; Context.run leaves the Context)
Finish(b) ==
    /\ Spend
    /\ CanCall(b)
    /\ b # MainBranch
    /\ brState' = [brState EXCEPT ![b] = "done"]
    /\ brFresh' = [brFresh EXCEPT ![b] = FALSE]
    /\ ctxEntered' = IF brKind[b] = "thread"
                     THEN [ctxEntered EXCEPT ![brCtx[b]] = FALSE]
                     ELSE ctxEntered
    /\ UNCHANGED <<graphVars, traceVars, spanVars, nodeVars, ctxCount, ctxTrace, ctxNode,
                   ctxWrapped, ctxSnap, brCtx, brKind, pend, ghostVars, finVars, obsVars, hooks, spanTakesHooks,
                   dataVars, last>>

\* ------------------------------------------------------------ trace_node
\* The wrapper made by trace_node, called while a trace is ambient:
\* with Span(trace=current_trace, name=label, node_type=node_type) constructs a
\* Span whose parent is the ambient current node, and enters it.
WrapperCall(b) ==
    /\ CanCall(b)
    /\ GetCurrentTrace(brCtx[b]) # NoTrace
    /\ CanAllocate
    /\ LET c == brCtx[b]
           t == GetCurrentTrace(c)
           s == spCount + 1
           p == ParentNode(c, NoNode)
           value == SequenceValue(t)
           e == EnterEffect(s, t, p, FALSE, c, GetCurrentNode(c))
       IN /\ counter' = [counter EXCEPT ![t] = IncrementCounter(value)]
          /\ NewSpan(s, t, p, value, DefaultConfig)
          /\ nStatus' = [nStatus EXCEPT ![s] = e.status]
          /\ gnodes' = [gnodes EXCEPT ![t] = e.nodes]
          /\ edges' = [edges EXCEPT ![t] = e.edges]
          /\ spTok' = [spTok EXCEPT ![s] = e.tok]
          /\ ctxNode' = [ctxNode EXCEPT ![c] = e.node]
          /\ spEntered' = [spEntered EXCEPT ![s] = e.entered]
          /\ spEnters' = [spEnters EXCEPT ![s] = @ + 1]
          /\ spBefore' = [spBefore EXCEPT ![s] = IF e.entered THEN Amb(c) ELSE @]
          /\ Called("wrapper", b, s, t, NoErr, e.out)
    /\ Touch(b)
    /\ UNCHANGED <<traceVars, nErr, ctxCount, ctxTrace, ctxEntered, ctxWrapped, ctxSnap,
                   brVars, trBefore, finVars, obsVars, hooks, spanTakesHooks,
                   cfg, nData>>

\* The wrapper called on a thread that is switched out inside
\* next_sequence_number, after line 48: get_current_trace() and the parent
\* (the ambient current node) were read before, in Span.__init__.
WrapperBegin(b) ==
    /\ CanCall(b)
    /\ Preemptible(b)
    /\ GetCurrentTrace(brCtx[b]) # NoTrace
    /\ CanAllocate
    /\ LET c == brCtx[b]
           t == GetCurrentTrace(c)
       IN pend' = [pend EXCEPT ![b] =
                      [NoPend EXCEPT !.active = TRUE, !.pc = "s49", !.trace = t,
                                     !.parent = ParentNode(c, NoNode),
                                     !.value = SequenceValue(t),
                                     !.ret = [NoLast EXCEPT !.op = "wrapper", !.br = b,
                                                            !.trace = t]]]
    /\ Touch(b)
    /\ UNCHANGED <<graphVars, traceVars, spanVars, nodeVars, ctxVars, brState, brCtx, brKind,
                   ghostVars, finVars, obsVars, hooks, spanTakesHooks,
                   dataVars, last>>

\* a wrapper that swallows the error of the function
MutFunctionOutcome(exc) == "ok"

\* return func(*args, **kwargs): the caller gets the return value, or the error
\* the function raised
FunctionOutcome(exc) == IF exc = NoErr THEN "ok" ELSE exc

\* what a wrapped function returns: a str, or a dict one of whose keys is not a str
WrapperResults == {[kind |-> "str", chars |-> <<"a">>], [kind |-> "dict_int_key", chars |-> <<>>]}

\* span.output(**_format_return(result)): _format_return hands a dict back as it
\* is, and a call with ** of a mapping that has a non-str key raises TypeError
KeywordsAreStrings(v) == v.kind # "dict_int_key"

\* One whole call of a function of no arguments wrapped with
\* trace_node(capture_return=cap), the function itself making no tracing call;
\* it raises exc, or (exc = NoErr) returns res.  With no ambient trace the
\* function is called directly.  Otherwise with Span(trace=current_trace, ...)
\* as span: the Span is constructed and entered (when __enter__ raises the
\* function is never run), the function runs, with capture_return
\* span.output(**_format_return(result)) stores the result or raises, and
\* __exit__ gets the error that left the with block.
WrapperRun(b, cap, exc, res) ==
    /\ CanCall(b)
    /\ IF exc = NoErr THEN res \in WrapperResults ELSE res = NoValue
    /\ LET c == brCtx[b]
           t == GetCurrentTrace(c)
       IN IF t = NoTrace
          THEN /\ last' = [NoLast EXCEPT !.op = "wrapped_call", !.br = b, !.exc = exc,
                                         !.val = res, !.ty = IF cap THEN "capture" ELSE "none",
                                         !.out = FunctionOutcome(exc), !.pre = Amb(c)]
               /\ UNCHANGED <<graphVars, spanVars, spCfg, nodeVars, nData, ctxNode, spBefore,
                              warnings>>
          ELSE /\ CanAllocate
               /\ LET s == spCount + 1
                      p == ParentNode(c, NoNode)
                      value == SequenceValue(t)
                      e == EnterEffect(s, t, p, FALSE, c, GetCurrentNode(c))
                      r == IF e.entered THEN ResetOutcome(e.tok, c) ELSE "skip"
                      stores == cap /\ exc = NoErr
                      left == IF stores /\ ~KeywordsAreStrings(res) THEN "TypeError" ELSE exc
                  IN /\ counter' = [counter EXCEPT ![t] = IncrementCounter(value)]
                     /\ NewSpan(s, t, p, value, DefaultConfig)
                     /\ gnodes' = [gnodes EXCEPT ![t] = e.nodes]
                     /\ edges' = [edges EXCEPT ![t] = e.edges]
                     /\ nStatus' = [nStatus EXCEPT ![s] =
                                       IF e.entered THEN ExitStatus(e.status, left)
                                       ELSE e.status]
                     /\ nErr' = [nErr EXCEPT ![s] = IF e.entered THEN ExitErr(@, left) ELSE @]
                     /\ nData' = [nData EXCEPT ![s].output =
                                     IF e.entered /\ stores /\ KeywordsAreStrings(res)
                                     THEN TruncateIfNeeded(SafeValue(res),
                                                           OutputLimit(DefaultConfig))
                                     ELSE @]
                     /\ warnings' = IF e.entered THEN warnings + ExitWarnings(left)
                                    ELSE warnings
                     /\ spTok' = [spTok EXCEPT ![s] = IF r = "ok" THEN UseToken(e.tok) ELSE e.tok]
                     /\ ctxNode' = [ctxNode EXCEPT ![c] =
                                       IF r = "ok" THEN ResetValue(e.tok) ELSE e.node]
                     /\ spEntered' = [spEntered EXCEPT ![s] = FALSE]
                     /\ spEnters' = [spEnters EXCEPT ![s] = @ + 1]
                     /\ spBefore' = [spBefore EXCEPT ![s] = IF e.entered THEN Amb(c) ELSE @]
                     /\ last' = [NoLast EXCEPT !.op = "wrapped_call", !.br = b, !.span = s,
                                               !.trace = t, !.exc = exc, !.pre = Amb(c),
                                               !.val = res,
                                               !.ty = IF cap THEN "capture" ELSE "none",
                                               !.open = e.entered,
                                               !.out = IF e.entered THEN ExitOut(left, r)
                                                       ELSE e.out]
    /\ Touch(b)
    /\ UNCHANGED <<traceVars, ctxCount, ctxTrace, ctxEntered, ctxWrapped, ctxSnap,
                   brVars, trBefore, finVars, log, hooks, spanTakesHooks, cfg>>

\* One whole call, inside a trace, of a function that returns its argument and
\* is wrapped with trace_node(capture_args=True, capture_return=True):
\* with Span(trace=current_trace, name=label, node_type=node_type) as span (no
\* config is handed over, so the Span has TracerConfig()), span.input(x=v),
\* the function runs, span.output(return_value=v), __exit__ without an error.
WrapperCapture(b, v) ==
    /\ CanCall(b)
    /\ GetCurrentTrace(brCtx[b]) # NoTrace
    /\ CanAllocate
    /\ LET c == brCtx[b]
           t == GetCurrentTrace(c)
           s == spCount + 1
           p == ParentNode(c, NoNode)
           value == SequenceValue(t)
           e == EnterEffect(s, t, p, FALSE, c, GetCurrentNode(c))
           r == IF e.entered THEN ResetOutcome(e.tok, c) ELSE "skip"
       IN /\ counter' = [counter EXCEPT ![t] = IncrementCounter(value)]
          /\ NewSpan(s, t, p, value, DefaultConfig)
          /\ gnodes' = [gnodes EXCEPT ![t] = e.nodes]
          /\ edges' = [edges EXCEPT ![t] = e.edges]
          /\ nStatus' = [nStatus EXCEPT ![s] =
                            IF e.entered THEN ExitStatus(e.status, NoErr) ELSE e.status]
          /\ nData' = [nData EXCEPT ![s] =
                          IF e.entered
                          THEN [input |-> TruncateIfNeeded(SafeValue(v),
                                                           InputLimit(DefaultConfig)),
                                output |-> TruncateIfNeeded(SafeValue(v),
                                                            OutputLimit(DefaultConfig))]
                          ELSE @]
          /\ spTok' = [spTok EXCEPT ![s] = IF r = "ok" THEN UseToken(e.tok) ELSE e.tok]
          /\ ctxNode' = [ctxNode EXCEPT ![c] = IF r = "ok" THEN ResetValue(e.tok) ELSE e.node]
          /\ spEntered' = [spEntered EXCEPT ![s] = FALSE]
          /\ spEnters' = [spEnters EXCEPT ![s] = @ + 1]
          /\ spBefore' = [spBefore EXCEPT ![s] = IF e.entered THEN Amb(c) ELSE @]
          /\ last' = [NoLast EXCEPT !.op = "wrapped_capture", !.br = b, !.span = s,
                                    !.trace = t, !.pre = Amb(c), !.open = e.entered,
                                    !.val = v,
                                    !.out = IF e.entered THEN ExitOut(NoErr, r) ELSE e.out]
    /\ Touch(b)
    /\ UNCHANGED <<traceVars, nErr, ctxCount, ctxTrace, ctxEntered, ctxWrapped, ctxSnap,
                   brVars, trBefore, finVars, obsVars, hooks, spanTakesHooks, cfg>>

\* ------------------------------------------- calls made on threads
\* No method of Span, TraceContext or TraceGraph takes a lock, so a thread can
\* be switched out between any two statements of a call while other threads
\* run.  A ...Begin action is the call made by a thread that is switched out
\* before the first statement of the method; Resume runs the next statement.
\* The actions SpanEnter, SpanExit, TraceEnter, ... are the same calls run
\* without a switch inside.

\* Span.__enter__ called on a thread that is switched out at once
SpanEnterBegin(b, s) ==
    /\ CanCall(b)
    /\ Preemptible(b)
    /\ s \in 1..spCount
    /\ pend' = [pend EXCEPT ![b] =
                   [NoPend EXCEPT !.active = TRUE, !.pc = "e91", !.span = s,
                                  !.trace = spTrace[s],
                                  !.ret = [NoLast EXCEPT !.op = "enter", !.br = b, !.span = s,
                                                         !.trace = spTrace[s]]]]
    /\ Touch(b)
    /\ UNCHANGED <<graphVars, traceVars, spanVars, nodeVars, ctxVars, brState, brCtx, brKind,
                   ghostVars, finVars, obsVars, hooks, spanTakesHooks,
                   dataVars, last>>

\* if exc is None (line 111): the first statement __exit__ runs after the test
ExitStart(exc) == IF exc = NoErr THEN "x112" ELSE "x115"

\* Span.__exit__ called on a thread that is switched out at once
SpanExitBegin(b, s, exc) ==
    /\ CanCall(b)
    /\ Preemptible(b)
    /\ s \in 1..spCount
    /\ spEnters[s] > 0
    /\ pend' = [pend EXCEPT ![b] =
                   [NoPend EXCEPT !.active = TRUE, !.pc = ExitStart(exc), !.span = s,
                                  !.trace = spTrace[s], !.exc = exc,
                                  !.ret = [NoLast EXCEPT !.op = "exit", !.br = b, !.span = s,
                                                         !.trace = spTrace[s], !.exc = exc,
                                                         !.open = spEntered[s],
                                                         !.lifo = InnermostIn(s, brCtx[b]),
                                                         !.pre = spBefore[s]]]]
    /\ Touch(b)
    /\ UNCHANGED <<graphVars, traceVars, spanVars, nodeVars, ctxVars, brState, brCtx, brKind,
                   ghostVars, finVars, obsVars, hooks, spanTakesHooks,
                   dataVars, last>>

\* TraceContext.__enter__ called on a thread that is switched out at once
TraceEnterBegin(b, t) ==
    /\ CanCall(b)
    /\ Preemptible(b)
    /\ trState[t] = "created"
    /\ pend' = [pend EXCEPT ![b] =
                   [NoPend EXCEPT !.active = TRUE, !.pc = "t91", !.span = trRoot[t],
                                  !.trace = t,
                                  !.ret = [NoLast EXCEPT !.op = "trace_enter", !.br = b,
                                                         !.span = trRoot[t], !.trace = t]]]
    /\ trBefore' = [trBefore EXCEPT ![t] = Amb(brCtx[b])]
    /\ Touch(b)
    /\ UNCHANGED <<graphVars, traceVars, spanVars, nodeVars, ctxVars, brState, brCtx, brKind,
                   spBefore, finVars, obsVars, hooks, spanTakesHooks,
                   dataVars, last>>

\* TraceContext.__exit__ called on a thread that is switched out at once, inside
\* root_span.__exit__ (line 102)
TraceExitBegin(b, t, exc, saveOk) ==
    /\ CanCall(b)
    /\ Preemptible(b)
    /\ trState[t] = "entered"
    /\ pend' = [pend EXCEPT ![b] =
                   [NoPend EXCEPT !.active = TRUE, !.pc = ExitStart(exc),
                                  !.span = trRoot[t], !.trace = t, !.exc = exc,
                                  !.ok = saveOk,
                                  !.ret = [NoLast EXCEPT !.op = "trace_exit", !.br = b,
                                                         !.span = trRoot[t], !.trace = t,
                                                         !.exc = exc,
                                                         !.open = spEntered[trRoot[t]],
                                                         !.lifo = TraceInnermostIn(t, brCtx[b]),
                                                         !.pre = trBefore[t]]]]
    /\ Touch(b)
    /\ UNCHANGED <<graphVars, traceVars, spanVars, nodeVars, ctxVars, brState, brCtx, brKind,
                   ghostVars, finVars, obsVars, hooks, spanTakesHooks,
                   dataVars, last>>

\* clear_context called on a thread that is switched out at once
ClearContextBegin(b) ==
    /\ CanCall(b)
    /\ Preemptible(b)
    /\ pend' = [pend EXCEPT ![b] =
                   [NoPend EXCEPT !.active = TRUE, !.pc = "c49",
                                  !.ret = [NoLast EXCEPT !.op = "clear_context", !.br = b]]]
    /\ Touch(b)
    /\ UNCHANGED <<graphVars, traceVars, spanVars, nodeVars, ctxVars, brState, brCtx, brKind,
                   ghostVars, finVars, obsVars, hooks, spanTakesHooks,
                   dataVars, last>>

\* The thread of branch b runs the next statement of the call it is in.
\*   s49, s49w   trace_graph.py 49: self._sequence_counter += 1, its read of the
\*               counter and its store; with the store, return value (50) and
\*               the rest of Span.__init__ (span.py 38-46)
\*   e91 .. e100 span.py 91, 94-95, 96, 97-98, 99, 100-101 (Span.__enter__)
\*   x112 .. x127 Span.__exit__: span.py 112 (the test of the status), 113, 115,
\*               116 (str(exc); when it raises, the warning of 121), 117, 118,
\*               125-126, 127-130.  Line 111 tests the argument and is taken
\*               with the call.
\*   t91, t92    tracer.py 91, 92 (TraceContext.__enter__), then line 93 is
\*               root_span.__enter__() (e91 ..) and line 94 returns
\*   t103, t105  tracer.py 103-104, 105-106 (TraceContext.__exit__, after line
\*               102, root_span.__exit__(), has run as x112 ..)
\*   f71 .. f82  _finalize: tracer.py 71, 72-79 (storage.save and the warning
\*               when it raises), 80-88 one hook of the loop at a time; after
\*               the last hook __exit__ returns (108)
\*   c49, c50    context.py 49, 50 (clear_context)
\* A statement that raises ends the call there; the caller observes p.ret with
\* the outcome.
Resume(b) ==
    /\ pend[b].active
    /\ LET p == pend[b]
           c == brCtx[b]
           s == p.span
           t == p.trace
           exc == p.exc
           Fixed == <<trRoot, ctxCount, ctxEntered, ctxWrapped, ctxSnap, brState, brCtx,
                      brKind, brFresh, budget, trBefore, hooks, spanTakesHooks, cfg, nData>>
           Made == <<spCount, spCfg, spTrace, spParent, nSeq, nDepth>>
           InTraceEnter == p.ret.op \in {"trace_enter", "trace_aenter"}
           InTraceExit == p.ret.op \in {"trace_exit", "trace_aexit"}
           Returns(out) == /\ pend' = [pend EXCEPT ![b] = NoPend]
                           /\ last' = [p.ret EXCEPT !.out = out]
           Goes(pc) == /\ pend' = [pend EXCEPT ![b].pc = pc]
                       /\ last' = last
           Did(pc, steps) == /\ pend' = [pend EXCEPT ![b].pc = pc,
                                                     ![b].ret.steps = @ \o steps]
                             /\ last' = last
           EnterReturns(out) ==
               /\ Returns(out)
               /\ trState' = IF InTraceEnter
                             THEN [trState EXCEPT ![t] = IF out = "ok" THEN "entered"
                                                         ELSE "broken"]
                             ELSE trState
           ExitReturns(out) ==
               /\ Returns(out)
               /\ trState' = IF InTraceExit THEN [trState EXCEPT ![t] = "exited"]
                             ELSE trState
       IN \/ /\ p.pc = "s49"
             /\ pend' = [pend EXCEPT ![b].pc = "s49w", ![b].read = SequenceValue(t)]
             /\ last' = last
             /\ UNCHANGED <<Fixed, counter, gnodes, edges, trState, trTok, Made, nStatus,
                            nErr, spEntered, spEnters, spTok, ctxTrace, ctxNode, spBefore,
                            trEnd, saveCalls, stored, warnings, log>>
          \/ /\ p.pc = "s49w"
             /\ counter' = [counter EXCEPT ![t] = IncrementCounter(p.read)]
             /\ IF p.ret.op = "construct"
                THEN /\ NewSpan(spCount + 1, t, p.parent, p.value, spCfg[p.parent])
                     /\ pend' = [pend EXCEPT ![b] = NoPend]
                     /\ last' = [p.ret EXCEPT !.span = spCount + 1]
                ELSE /\ NewSpan(spCount + 1, t, p.parent, p.value, DefaultConfig)
                     /\ pend' = [pend EXCEPT ![b].pc = "e91", ![b].span = spCount + 1,
                                             ![b].ret.span = spCount + 1]
                     /\ last' = last
             /\ UNCHANGED <<Fixed, gnodes, edges, trState, trTok, nStatus, nErr, spEntered,
                            spEnters, spTok, ctxTrace, ctxNode, spBefore, trEnd, saveCalls,
                            stored, warnings, log>>
          \/ /\ p.pc = "e91"
             /\ IF spEntered[s] THEN EnterReturns("ok") ELSE Goes("e94") /\ trState' = trState
             /\ UNCHANGED <<Fixed, counter, gnodes, edges, trTok, Made, nStatus, nErr,
                            spEntered, spEnters, spTok, ctxTrace, ctxNode, spBefore, trEnd,
                            saveCalls, stored, warnings, log>>
          \/ /\ p.pc = "e94"
             /\ nStatus' = [nStatus EXCEPT ![s] = "running"]
             /\ Goes("e96")
             /\ UNCHANGED <<Fixed, counter, gnodes, edges, trState, trTok, Made, nErr,
                            spEntered, spEnters, spTok, ctxTrace, ctxNode, spBefore, trEnd,
                            saveCalls, stored, warnings, log>>
          \/ /\ p.pc = "e96"
             /\ gnodes' = [gnodes EXCEPT ![t] = AddNode(@, s)]
             /\ Goes("e97")
             /\ UNCHANGED <<Fixed, counter, edges, trState, trTok, Made, nStatus, nErr,
                            spEntered, spEnters, spTok, ctxTrace, ctxNode, spBefore, trEnd,
                            saveCalls, stored, warnings, log>>
          \/ /\ p.pc = "e97"
             /\ IF spParent[s] = NoNode
                THEN Goes("e99") /\ UNCHANGED <<edges, spEnters, trState>>
                ELSE IF EdgeEndpointsKnown(gnodes[t], spParent[s], s)
                THEN /\ edges' = [edges EXCEPT ![t] = Append(@, <<spParent[s], s, "caused_by">>)]
                     /\ Goes("e99")
                     /\ UNCHANGED <<spEnters, trState>>
                ELSE /\ EnterReturns("ValueError")
                     /\ spEnters' = [spEnters EXCEPT ![s] = @ + 1]
                     /\ edges' = edges
             /\ UNCHANGED <<Fixed, counter, gnodes, trTok, Made, nStatus, nErr, spEntered,
                            spTok, ctxTrace, ctxNode, spBefore, trEnd, saveCalls, stored,
                            warnings, log>>
          \/ /\ p.pc = "e99"
             /\ spTok' = [spTok EXCEPT ![s] = PushToken(c, GetCurrentNode(c))]
             /\ ctxNode' = [ctxNode EXCEPT ![c] = s]
             /\ spBefore' = [spBefore EXCEPT ![s] = Amb(c)]
             /\ Goes("e100")
             /\ UNCHANGED <<Fixed, counter, gnodes, edges, trState, trTok, Made, nStatus,
                            nErr, spEntered, spEnters, ctxTrace, trEnd, saveCalls, stored,
                            warnings, log>>
          \/ /\ p.pc = "e100"
             /\ spEntered' = [spEntered EXCEPT ![s] = TRUE]
             /\ spEnters' = [spEnters EXCEPT ![s] = @ + 1]
             /\ EnterReturns("ok")
             /\ UNCHANGED <<Fixed, counter, gnodes, edges, trTok, Made, nStatus, nErr,
                            spTok, ctxTrace, ctxNode, spBefore, trEnd, saveCalls, stored,
                            warnings, log>>
          \/ /\ p.pc = "x112"
             /\ Goes(IF nStatus[s] = "running" THEN "x113" ELSE "x125")
             /\ UNCHANGED <<Fixed, counter, gnodes, edges, trState, trTok, Made, nStatus,
                            nErr, spEntered, spEnters, spTok, ctxTrace, ctxNode, spBefore,
                            trEnd, saveCalls, stored, warnings, log>>
          \/ /\ p.pc = "x113"
             /\ nStatus' = [nStatus EXCEPT ![s] = "completed"]
             /\ Goes("x125")
             /\ UNCHANGED <<Fixed, counter, gnodes, edges, trState, trTok, Made, nErr,
                            spEntered, spEnters, spTok, ctxTrace, ctxNode, spBefore, trEnd,
                            saveCalls, stored, warnings, log>>
          \/ /\ p.pc = "x115"
             /\ nStatus' = [nStatus EXCEPT ![s] = "failed"]
             /\ Goes("x116")
             /\ UNCHANGED <<Fixed, counter, gnodes, edges, trState, trTok, Made, nErr,
                            spEntered, spEnters, spTok, ctxTrace, ctxNode, spBefore, trEnd,
                            saveCalls, stored, warnings, log>>
          \/ /\ p.pc = "x116"
             /\ IF StrRaises(exc)
                THEN /\ warnings' = warnings + 1
                     /\ nErr' = nErr
                     /\ Goes("x125")
                ELSE /\ nErr' = [nErr EXCEPT ![s].error = "message"]
                     /\ warnings' = warnings
                     /\ Goes("x117")
             /\ UNCHANGED <<Fixed, counter, gnodes, edges, trState, trTok, Made, nStatus,
                            spEntered, spEnters, spTok, ctxTrace, ctxNode, spBefore, trEnd,
                            saveCalls, stored, log>>
          \/ /\ p.pc = "x117"
             /\ nErr' = [nErr EXCEPT ![s].error_type = exc]
             /\ Goes("x118")
             /\ UNCHANGED <<Fixed, counter, gnodes, edges, trState, trTok, Made, nStatus,
                            spEntered, spEnters, spTok, ctxTrace, ctxNode, spBefore, trEnd,
                            saveCalls, stored, warnings, log>>
          \/ /\ p.pc = "x118"
             /\ nErr' = [nErr EXCEPT ![s].error_traceback = "traceback"]
             /\ Goes("x125")
             /\ UNCHANGED <<Fixed, counter, gnodes, edges, trState, trTok, Made, nStatus,
                            spEntered, spEnters, spTok, ctxTrace, ctxNode, spBefore, trEnd,
                            saveCalls, stored, warnings, log>>
          \/ /\ p.pc = "x125"
             /\ LET r == ExitReset(s, c)
                IN /\ spTok' = [spTok EXCEPT ![s] = IF r = "ok" THEN UseToken(@) ELSE @]
                   /\ ctxNode' = [ctxNode EXCEPT ![c] = IF r = "ok" THEN ResetValue(spTok[s])
                                                          ELSE @]
                   /\ IF r \in {"ok", "skip"}
                      THEN Goes("x127") /\ trState' = trState
                      ELSE ExitReturns(ExitOut(exc, r))
             /\ UNCHANGED <<Fixed, counter, gnodes, edges, trTok, Made, nStatus, nErr,
                            spEntered, spEnters, ctxTrace, spBefore, trEnd, saveCalls,
                            stored, warnings, log>>
          \/ /\ p.pc = "x127"
             /\ spEntered' = [spEntered EXCEPT ![s] = FALSE]
             /\ IF InTraceExit
                THEN Did("t103", <<"root_exit">>) /\ trState' = trState
                ELSE ExitReturns(ExitOut(exc, "ok"))
             /\ UNCHANGED <<Fixed, counter, gnodes, edges, trTok, Made, nStatus, nErr,
                            spEnters, spTok, ctxTrace, ctxNode, spBefore, trEnd, saveCalls,
                            stored, warnings, log>>
          \/ /\ p.pc = "t91"
             /\ trTok' = [trTok EXCEPT ![t].tr = PushToken(c, GetCurrentTrace(c))]
             /\ ctxTrace' = [ctxTrace EXCEPT ![c] = t]
             /\ Goes("t92")
             /\ UNCHANGED <<Fixed, counter, gnodes, edges, trState, Made, nStatus, nErr,
                            spEntered, spEnters, spTok, ctxNode, spBefore, trEnd,
                            saveCalls, stored, warnings, log>>
          \/ /\ p.pc = "t92"
             /\ trTok' = [trTok EXCEPT ![t].nd = PushToken(c, GetCurrentNode(c))]
             /\ ctxNode' = [ctxNode EXCEPT ![c] = NoNode]
             /\ Goes("e91")
             /\ UNCHANGED <<Fixed, counter, gnodes, edges, trState, Made, nStatus, nErr,
                            spEntered, spEnters, spTok, ctxTrace, spBefore, trEnd,
                            saveCalls, stored, warnings, log>>
          \/ /\ p.pc = "t103"
             /\ LET r == IF IsToken(trTok[t].nd) THEN ResetOutcome(trTok[t].nd, c) ELSE "skip"
                IN /\ trTok' = [trTok EXCEPT ![t].nd = IF r = "ok" THEN UseToken(@) ELSE @]
                   /\ ctxNode' = [ctxNode EXCEPT ![c] = IF r = "ok" THEN ResetValue(trTok[t].nd)
                                                          ELSE @]
                   /\ IF r \in {"ok", "skip"}
                      THEN Did("t105", <<"reset_node">>) /\ trState' = trState
                      ELSE ExitReturns(r)
             /\ UNCHANGED <<Fixed, counter, gnodes, edges, Made, nStatus, nErr, spEntered,
                            spEnters, spTok, ctxTrace, spBefore, trEnd, saveCalls, stored,
                            warnings, log>>
          \/ /\ p.pc = "t105"
             /\ LET r == IF IsToken(trTok[t].tr) THEN ResetOutcome(trTok[t].tr, c) ELSE "skip"
                IN /\ trTok' = [trTok EXCEPT ![t].tr = IF r = "ok" THEN UseToken(@) ELSE @]
                   /\ ctxTrace' = [ctxTrace EXCEPT ![c] = IF r = "ok" THEN ResetValue(trTok[t].tr)
                                                            ELSE @]
                   /\ IF r \in {"ok", "skip"}
                      THEN Did("f71", <<"reset_trace">>) /\ trState' = trState
                      ELSE ExitReturns(r)
             /\ UNCHANGED <<Fixed, counter, gnodes, edges, Made, nStatus, nErr, spEntered,
                            spEnters, spTok, ctxNode, spBefore, trEnd, saveCalls, stored,
                            warnings, log>>
          \/ /\ p.pc = "f71"
             /\ trEnd' = [trEnd EXCEPT ![t] = @ + 1]
             /\ Did("f73", <<"end_time">>)
             /\ UNCHANGED <<Fixed, counter, gnodes, edges, trState, trTok, Made, nStatus,
                            nErr, spEntered, spEnters, spTok, ctxTrace, ctxNode, spBefore,
                            saveCalls, stored, warnings, log>>
          \/ /\ p.pc = "f73"
             /\ saveCalls' = [saveCalls EXCEPT ![t] = @ + 1]
             /\ stored' = IF p.ok THEN stored \cup {t} ELSE stored
             /\ warnings' = IF p.ok THEN warnings ELSE warnings + 1
             /\ Did("f82", IF p.ok THEN <<"save">> ELSE <<"save", "save_warning">>)
             /\ UNCHANGED <<Fixed, counter, gnodes, edges, trState, trTok, Made, nStatus,
                            nErr, spEntered, spEnters, spTok, ctxTrace, ctxNode, spBefore,
                            trEnd, log>>
          \/ /\ p.pc = "f82"
             /\ IF p.i <= DeliveredCount(hooks)
                THEN /\ log' = Append(log, TraceCompleted(p.i, t))
                     /\ warnings' = IF hooks[p.i] = "broken" THEN warnings + 1 ELSE warnings
                     /\ pend' = [pend EXCEPT ![b].i = @ + 1,
                                             ![b].ret.steps = Append(@, "trace_completed")]
                     /\ last' = last
                     /\ trState' = trState
                ELSE /\ ExitReturns(SaveOutcome(p.ok, ExitOut(exc, "ok")))
                     /\ UNCHANGED <<log, warnings>>
             /\ UNCHANGED <<Fixed, counter, gnodes, edges, trTok, Made, nStatus, nErr,
                            spEntered, spEnters, spTok, ctxTrace, ctxNode, spBefore, trEnd,
                            saveCalls, stored>>
          \/ /\ p.pc = "c49"
             /\ ctxTrace' = [ctxTrace EXCEPT ![c] = NoTrace]
             /\ Goes("c50")
             /\ UNCHANGED <<Fixed, counter, gnodes, edges, trState, trTok, Made, nStatus,
                            nErr, spEntered, spEnters, spTok, ctxNode, spBefore, trEnd,
                            saveCalls, stored, warnings, log>>
          \/ /\ p.pc = "c50"
             /\ ctxNode' = [ctxNode EXCEPT ![c] = NoNode]
             /\ Returns("ok")
             /\ UNCHANGED <<Fixed, counter, gnodes, edges, trState, trTok, Made, nStatus,
                            nErr, spEntered, spEnters, spTok, ctxTrace, spBefore, trEnd,
                            saveCalls, stored, warnings, log>>

\* ------------------------------------------------------- specifications
\* Spec: one thread of control (the host's main task) using the trace scope and
\* the Span API in every order, LifeCalls calls long.
Init == InitWith(LifeCalls, <<>>)

Next ==
    \/ \E b \in Branches : TraceCreate(b)
    \/ \E b \in Branches, t \in TraceIds : TraceEnter(b, t)
    \/ \E b \in Branches, t \in TraceIds, exc \in {NoErr} \cup HostErrors, ok \in BOOLEAN :
          TraceExit(b, t, exc, ok)
    \/ \E b \in Branches, s \in SpanIds : SpanNode(b, s)
    \/ \E b \in Branches : WrapperCall(b)
    \/ \E b \in Branches, cap \in BOOLEAN, exc \in {NoErr} \cup HostErrors,
          res \in WrapperResults \cup {NoValue} : WrapperRun(b, cap, exc, res)
    \/ \E b \in Branches, s \in SpanIds : SpanEnter(b, s)
    \/ \E b \in Branches, s \in SpanIds, exc \in {NoErr} \cup HostErrors : SpanExit(b, s, exc)
    \/ \E b \in Branches, s \in SpanIds, st \in Statuses : SetStatus(b, s, st)

Spec == Init /\ [][Next]_vars

\* SpecGraph: the graph seen through the Span API and through direct
\* add_node / add_edge calls and TraceGraph construction.
InitGraph == InitWith(GraphCalls, <<>>)

NextGraph ==
    \/ \E b \in Branches : TraceCreate(b)
    \/ \E b \in Branches, t \in TraceIds : TraceEnter(b, t)
    \/ \E b \in Branches, s \in SpanIds : SpanNode(b, s)
    \/ \E b \in Branches : WrapperCall(b)
    \/ \E b \in Branches, s \in SpanIds : SpanEnter(b, s)
    \/ \E b \in Branches, s \in SpanIds : SpanExit(b, s, NoErr)
    \/ \E b \in Branches, s \in SpanIds, target \in SpanIds, ty \in LinkTypes :
          SpanLink(b, s, target, ty)
    \/ \E b \in Branches, t \in TraceIds, n \in SpanIds : DirectAddNode(b, t, n)
    \/ \E b \in Branches, t \in TraceIds, src \in SpanIds, tgt \in SpanIds :
          DirectAddEdge(b, t, src, tgt)
    \/ \E b \in Branches, ns \in SUBSET SpanIds, es \in EdgeLists : NewGraph(b, ns, es)

SpecGraph == InitGraph /\ [][NextGraph]_vars

\* SpecConc: concurrently running branches (asyncio tasks, wrapped callables on
\* threads) working on shared graphs.
InitConc == InitWith(ConcCalls, <<>>)

NextConc ==
    \/ \E b \in Branches : TraceCreate(b)
    \/ \E b \in Branches, t \in TraceIds : TraceEnter(b, t)
    \/ \E b \in Branches, s \in SpanIds : SpanNode(b, s)
    \/ \E b \in Branches, s \in SpanIds : SpanNodeBegin(b, s)
    \/ \E b \in Branches : WrapperCall(b)
    \/ \E b \in Branches : WrapperBegin(b)
    \/ \E b \in Branches : ClearContext(b)
    \/ \E b \in Branches, t \in TraceIds : TraceEnterBegin(b, t)
    \/ \E b \in Branches, s \in SpanIds : SpanEnterBegin(b, s)
    \/ \E b \in Branches, s \in SpanIds : SpanExitBegin(b, s, NoErr)
    \/ \E b \in Branches : ClearContextBegin(b)
    \/ \E b \in Branches : Resume(b)
    \/ \E b \in Branches, s \in SpanIds : SpanEnter(b, s)
    \/ \E b \in Branches, s \in SpanIds : SpanExit(b, s, NoErr)
    \/ \E b \in Branches : ForkTask(b)
    \/ \E b \in Branches : PropagateContext(b)
    \/ \E cw \in CtxIds : CallWrapped(cw)
    \/ \E b \in Branches : Finish(b)

SpecConc == InitConc /\ [][NextConc]_vars

\* SpecData: a Tracer with any size limits, its trace scopes and Spans, and
\* values handed to input() and output().
InitData == \E config \in Configs : InitAll(DataCalls, <<>>, config)

NextData ==
    \/ \E b \in Branches : TraceCreate(b)
    \/ \E b \in Branches, s \in SpanIds, v \in Values : SpanInput(b, s, v)
    \/ \E b \in Branches, s \in SpanIds, v \in Values : SpanOutput(b, s, v)

SpecData == InitData /\ [][NextData]_vars

\* ------------------------------------------------- scopes as with blocks
\* with span: ... written inside the with block of the Span's parent
ScopeEnter(b, s) ==
    /\ spParent[s] # NoNode
    /\ spEntered[spParent[s]]
    /\ SpanEnter(b, s)

\* the end of a with block: __exit__ of the innermost open Span
ScopeExit(b, s, exc) ==
    /\ CanCall(b)
    /\ InnermostIn(s, brCtx[b])
    /\ SpanExit(b, s, exc)

\* the end of the with block of a trace scope, every scope inside it closed
TraceScopeExit(b, t, exc, saveOk) ==
    /\ trState[t] = "entered"
    /\ TraceInnermostIn(t, brCtx[b])
    /\ TraceExit(b, t, exc, saveOk)

\* SpecHooks: a Tracer with one or more hooks, some of them raising in every
\* callback, used through properly nested with blocks.
HookLists ==
    UNION {[1..n -> {"ok", "broken"}] : n \in 1..MaxHooks}

InitHooks == \E hs \in HookLists : InitWith(HookRunCalls, hs)

NextHooks ==
    \/ \E b \in Branches : TraceCreate(b)
    \/ \E b \in Branches, t \in TraceIds : TraceEnter(b, t)
    \/ \E b \in Branches, t \in TraceIds, exc \in {NoErr} \cup HostErrors, ok \in BOOLEAN :
          TraceScopeExit(b, t, exc, ok)
    \/ \E b \in Branches, s \in SpanIds : SpanNode(b, s)
    \/ \E b \in Branches, s \in SpanIds : ScopeEnter(b, s)
    \/ \E b \in Branches, s \in SpanIds, exc \in {NoErr} \cup HostErrors : ScopeExit(b, s, exc)

SpecHooks == InitHooks /\ [][NextHooks]_vars

\* Spans used as with blocks by concurrently running branches: tasks and
\* threads that make children with node() and enter and exit them
NextParallel ==
    \/ \E b \in Branches : TraceCreate(b)
    \/ \E b \in Branches, t \in TraceIds : TraceEnter(b, t)
    \/ \E b \in Branches, s \in SpanIds : SpanNode(b, s)
    \/ \E b \in Branches, s \in SpanIds : SpanNodeBegin(b, s)
    \/ \E b \in Branches, t \in TraceIds : TraceEnterBegin(b, t)
    \/ \E b \in Branches, s \in SpanIds :
          spParent[s] # NoNode /\ spEntered[spParent[s]] /\ SpanEnterBegin(b, s)
    \/ \E b \in Branches, s \in SpanIds :
          CanCall(b) /\ InnermostIn(s, brCtx[b]) /\ SpanExitBegin(b, s, NoErr)
    \/ \E b \in Branches : Resume(b)
    \/ \E b \in Branches, s \in SpanIds : ScopeEnter(b, s)
    \/ \E b \in Branches, s \in SpanIds : ScopeExit(b, s, NoErr)
    \/ \E b \in Branches : ForkTask(b)
    \/ \E b \in Branches : PropagateContext(b)
    \/ \E cw \in CtxIds : CallWrapped(cw)
    \/ \E b \in Branches : Finish(b)

SpecParallel == InitConc /\ [][NextParallel]_vars

\* SpecRace: a trace scope whose wrapped functions run on the main thread and on
\* threads started with propagate_context, while the scope is entered, Spans
\* and the scope itself are exited (with or without an error) and statuses are
\* set; a thread can be switched out inside any of these calls, the scope's
\* __enter__ included; storage.save succeeds.
InitRace == InitWith(RaceCalls, <<>>)

NextRace ==
    \/ TraceCreate(MainBranch)
    \/ \E t \in TraceIds : TraceEnter(MainBranch, t)
    \/ \E t \in TraceIds : TraceEnterBegin(MainBranch, t)
    \/ PropagateContext(MainBranch)
    \/ \E cw \in CtxIds : CallWrapped(cw)
    \/ \E b \in Branches : WrapperCall(b)
    \/ \E b \in Branches : WrapperBegin(b)
    \/ \E b \in Branches : Resume(b)
    \/ \E b \in Branches, s \in SpanIds : SetStatus(b, s, "cancelled")
    \/ \E b \in Branches, s \in SpanIds, exc \in {NoErr} \cup HostErrors :
          SpanExitBegin(b, s, exc)
    \/ \E b \in Branches, t \in TraceIds : TraceExit(b, t, NoErr, TRUE)
    \/ \E b \in Branches, t \in TraceIds, exc \in {NoErr} \cup HostErrors :
          TraceExitBegin(b, t, exc, TRUE)

SpecRace == InitRace /\ [][NextRace]_vars

\* SpecTasks: the main task starts tasks with asyncio.gather; each task opens
\* one trace scope of the one Tracer as its first call, makes and runs child
\* Spans as with blocks, and leaves the scope; storage.save succeeds.
TaskBranches == Branches \ {MainBranch}
InitTasks == InitWith(TaskCalls, <<>>)

\* async with tracer.trace(name) as the first statement of a task
TaskTraceCreate(b) ==
    /\ brFresh[b]
    /\ TraceCreate(b)

\* the with statement of a task's first call (the scope's __aenter__ runs
\* __enter__ and nothing is awaited between tracer.trace(name) and it)
TaskTraceEnter(b, t) ==
    /\ last.op = "trace"
    /\ last.br = b
    /\ last.trace = t
    /\ TraceEnter(b, t)

\* ------------------------------------------------ the async scope form
\* async with awaits the coroutine __aenter__() / __aexit__(exc_type, exc, tb).
\* The coroutine runs on the event loop's thread, statement by statement
\* (Resume); it holds no await, so no other task runs before it returns.

\* async def __aenter__(self): return self.__enter__()
SpanAEnter(b, s) ==
    /\ CanCall(b)
    /\ s \in 1..spCount
    /\ pend' = [pend EXCEPT ![b] =
                   [NoPend EXCEPT !.active = TRUE, !.pc = "e91", !.span = s,
                                  !.trace = spTrace[s],
                                  !.sync = EnterEffect(s, spTrace[s], spParent[s],
                                                       spEntered[s], brCtx[b],
                                                       GetCurrentNode(brCtx[b])),
                                  !.ret = [NoLast EXCEPT !.op = "aenter", !.br = b, !.span = s,
                                                         !.trace = spTrace[s]]]]
    /\ Touch(b)
    /\ UNCHANGED <<graphVars, traceVars, spanVars, nodeVars, ctxVars, brState, brCtx, brKind,
                   ghostVars, finVars, obsVars, hooks, spanTakesHooks,
                   dataVars, last>>

\* an __aexit__ that hands no error on to __exit__
MutAExitArgs(exc) == NoErr

\* return self.__exit__(exc_type, exc, tb): the error __aexit__ hands to __exit__
AExitArgs(exc) == exc

\* async def __aexit__(self, exc_type, exc, tb): return self.__exit__(exc_type, exc, tb)
SpanAExit(b, s, exc) ==
    /\ CanCall(b)
    /\ s \in 1..spCount
    /\ spEnters[s] > 0
    /\ pend' = [pend EXCEPT ![b] =
                   [NoPend EXCEPT !.active = TRUE, !.pc = ExitStart(AExitArgs(exc)),
                                  !.span = s, !.trace = spTrace[s],
                                  !.exc = AExitArgs(exc),
                                  !.sync = ExitEffect(s, brCtx[b], exc),
                                  !.ret = [NoLast EXCEPT !.op = "aexit", !.br = b, !.span = s,
                                                         !.trace = spTrace[s], !.exc = exc,
                                                         !.open = spEntered[s],
                                                         !.lifo = InnermostIn(s, brCtx[b]),
                                                         !.pre = spBefore[s]]]]
    /\ Touch(b)
    /\ UNCHANGED <<graphVars, traceVars, spanVars, nodeVars, ctxVars, brState, brCtx, brKind,
                   ghostVars, finVars, obsVars, hooks, spanTakesHooks,
                   dataVars, last>>

\* TraceContext.__aenter__: return self.__enter__()
TraceAEnter(b, t) ==
    /\ CanCall(b)
    /\ trState[t] = "created"
    /\ pend' = [pend EXCEPT ![b] =
                   [NoPend EXCEPT !.active = TRUE, !.pc = "t91", !.span = trRoot[t],
                                  !.trace = t,
                                  !.sync = EnterEffect(trRoot[t], t, spParent[trRoot[t]],
                                                       spEntered[trRoot[t]], brCtx[b], NoNode),
                                  !.ret = [NoLast EXCEPT !.op = "trace_aenter", !.br = b,
                                                         !.span = trRoot[t], !.trace = t]]]
    /\ trBefore' = [trBefore EXCEPT ![t] = Amb(brCtx[b])]
    /\ Touch(b)
    /\ UNCHANGED <<graphVars, traceVars, spanVars, nodeVars, ctxVars, brState, brCtx, brKind,
                   spBefore, finVars, obsVars, hooks, spanTakesHooks,
                   dataVars, last>>

\* TraceContext.__aexit__: return self.__exit__(exc_type, exc, tb)
TraceAExit(b, t, exc, saveOk) ==
    /\ CanCall(b)
    /\ trState[t] = "entered"
    /\ pend' = [pend EXCEPT ![b] =
                   [NoPend EXCEPT !.active = TRUE, !.pc = ExitStart(AExitArgs(exc)),
                                  !.span = trRoot[t], !.trace = t,
                                  !.exc = AExitArgs(exc), !.ok = saveOk,
                                  !.sync = TraceExitEffect(t, brCtx[b], exc),
                                  !.ret = [NoLast EXCEPT !.op = "trace_aexit", !.br = b,
                                                         !.span = trRoot[t], !.trace = t,
                                                         !.exc = exc,
                                                         !.open = spEntered[trRoot[t]],
                                                         !.lifo = TraceInnermostIn(t, brCtx[b]),
                                                         !.pre = trBefore[t]]]]
    /\ Touch(b)
    /\ UNCHANGED <<graphVars, traceVars, spanVars, nodeVars, ctxVars, brState, brCtx, brKind,
                   ghostVars, finVars, obsVars, hooks, spanTakesHooks,
                   dataVars, last>>

\* __aenter__ of async with tracer.trace(name): the task enters the scope it
\* has just built
TaskTraceAEnter(b, t) ==
    /\ last.op = "trace"
    /\ last.br = b
    /\ last.trace = t
    /\ TraceAEnter(b, t)

\* async with span: ... written inside the async with block of the Span's parent
AsyncScopeEnter(b, s) ==
    /\ spParent[s] # NoNode
    /\ spEntered[spParent[s]]
    /\ SpanAEnter(b, s)

\* the end of an async with block: __aexit__ of the innermost open Span
AsyncScopeExit(b, s, exc) ==
    /\ CanCall(b)
    /\ InnermostIn(s, brCtx[b])
    /\ SpanAExit(b, s, exc)

\* the end of the async with block of a trace scope
AsyncTraceScopeExit(b, t, exc, saveOk) ==
    /\ trState[t] = "entered"
    /\ TraceInnermostIn(t, brCtx[b])
    /\ TraceAExit(b, t, exc, saveOk)

NextTasks ==
    \/ ForkTask(MainBranch)
    \/ \E b \in TaskBranches : TaskTraceCreate(b)
    \/ \E b \in TaskBranches, t \in TraceIds : TaskTraceEnter(b, t)
    \/ \E b \in TaskBranches, s \in SpanIds : SpanNode(b, s)
    \/ \E b \in TaskBranches, s \in SpanIds : ScopeEnter(b, s)
    \/ \E b \in TaskBranches, s \in SpanIds : ScopeExit(b, s, NoErr)
    \/ \E b \in TaskBranches, t \in TraceIds : TraceScopeExit(b, t, NoErr, TRUE)

SpecTasks == InitTasks /\ [][NextTasks]_vars

\* SpecAsync: tasks that use trace scopes and Spans as async with blocks,
\* leave them with or without an error, start tasks of their own inside them
\* (which then work on the same graph), and are suspended inside them while
\* the other tasks run.
InitAsync == InitWith(AsyncCalls, <<>>)

NextAsync ==
    \/ \E b \in Branches : ForkTask(b)
    \/ \E b \in TaskBranches : TaskTraceCreate(b)
    \/ \E b \in TaskBranches, t \in TraceIds : TaskTraceAEnter(b, t)
    \/ \E b \in TaskBranches : Resume(b)
    \/ \E b \in TaskBranches, s \in SpanIds : SpanNode(b, s)
    \/ \E b \in TaskBranches, s \in SpanIds : AsyncScopeEnter(b, s)
    \/ \E b \in TaskBranches, s \in SpanIds, exc \in {NoErr} \cup HostErrors :
          AsyncScopeExit(b, s, exc)
    \/ \E b \in TaskBranches, t \in TraceIds, exc \in {NoErr} \cup HostErrors :
          AsyncTraceScopeExit(b, t, exc, TRUE)

SpecAsync == InitAsync /\ [][NextAsync]_vars

\* SpecRound: one task builds graphs through the public API (a trace scope,
\* child Spans, input and output values) and serializes and reloads them.
InitRound == InitWith(RoundCalls, <<>>)

NextRound ==
    \/ TraceCreate(MainBranch)
    \/ \E t \in TraceIds : TraceEnter(MainBranch, t)
    \/ \E s \in SpanIds : SpanNode(MainBranch, s)
    \/ \E s \in SpanIds : ScopeEnter(MainBranch, s)
    \/ \E s \in SpanIds, v \in Values : SpanInput(MainBranch, s, v)
    \/ \E s \in SpanIds, v \in Values : SpanOutput(MainBranch, s, v)
    \/ \E t \in TraceIds : RoundTrip(MainBranch, t)
    \/ LoadedNextSequenceNumber(MainBranch)

SpecRound == InitRound /\ [][NextRound]_vars

\* SpecCapture: a Tracer with any size limits; inside its trace scopes, values
\* are captured by Spans made with node() and by trace_node-wrapped calls.
InitCapture == \E config \in Configs : InitAll(CaptureCalls, <<>>, config)

NextCapture ==
    \/ TraceCreate(MainBranch)
    \/ \E t \in TraceIds : TraceEnter(MainBranch, t)
    \/ \E s \in SpanIds : SpanNode(MainBranch, s)
    \/ \E s \in SpanIds, v \in Values : SpanInput(MainBranch, s, v)
    \/ \E s \in SpanIds, v \in Values : SpanOutput(MainBranch, s, v)
    \/ \E v \in Values : WrapperCapture(MainBranch, v)

SpecCapture == InitCapture /\ [][NextCapture]_vars

\* ------------------------------------------------------------------ claims
Constructed == 1..spCount
SpansOf(t) == {s \in Constructed : spTrace[s] = t}
EdgeSet(t) == {edges[t][i] : i \in 1..Len(edges[t])}

\* C1: for Spans constructed against one TraceGraph by concurrently running
\* branches, each construction increments the counter exactly once (the counter
\* equals the number of Spans constructed, once no construction is under way)
\* and no two Spans of one trace have the same sequence_number.
C1_OneIncrementPerSpanDistinct ==
    /\ \A s1 \in Constructed, s2 \in Constructed :
          (s1 # s2 /\ spTrace[s1] = spTrace[s2]) => nSeq[s1] # nSeq[s2]
    /\ Pending = {} => \A t \in TraceIds : counter[t] = Cardinality(SpansOf(t))

\* C2: in every reachable state, both endpoints of every edge of a graph are
\* keys of that graph's nodes.
C2_EdgeEndpointsInGraph ==
    \A t \in TraceIds : \A i \in 1..Len(edges[t]) :
        edges[t][i][1] \in gnodes[t] /\ edges[t][i][2] \in gnodes[t]

\* a graph holds an implicit parent -> child edge and an edge added by link
C2_Witness ==
    /\ last.op = "link" /\ last.out = "ok"
    /\ \E s \in Constructed :
          spParent[s] # NoNode /\ <<spParent[s], s, "caused_by">> \in EdgeSet(last.trace)

\* C3: add_edge with an endpoint that is no key of nodes raises and leaves
\* edges and nodes as they were; building a TraceGraph from nodes and edges
\* with a missing endpoint raises and no graph is made.
C3_UnknownEndpointRejected ==
    [][/\ (/\ last'.op \in {"add_edge", "link"}
           /\ ~(last'.span \in gnodes[last'.trace] /\ last'.arg \in gnodes[last'.trace]))
          => (last'.out = "ValueError" /\ edges' = edges /\ gnodes' = gnodes)
       /\ (/\ last'.op = "new_graph"
           /\ \E i \in 1..Len(last'.arg[2]) :
                 last'.arg[2][i][1] \notin last'.arg[1] \/ last'.arg[2][i][2] \notin last'.arg[1])
          => (last'.out = "ValueError" /\ edges' = edges /\ gnodes' = gnodes
              /\ trState' = trState)
      ]_vars

\* a direct add_edge naming an unknown target was rejected on a graph that
\* already holds an edge
C3_Witness ==
    /\ last.op = "add_edge" /\ last.out = "ValueError"
    /\ last.span \in gnodes[last.trace] /\ last.arg \notin gnodes[last.trace]
    /\ Len(edges[last.trace]) >= 1

\* a TraceGraph construction was rejected for an edge whose target is missing
C3_WitnessNewGraph ==
    /\ last.op = "new_graph" /\ last.out = "ValueError"
    /\ last.arg[1] # {} /\ Len(last.arg[2]) = 1
    /\ last.arg[2][1][1] \in last.arg[1]

\* C4: a node's status only moves pending -> running -> {completed, failed} or
\* running -> cancelled, and a completed, failed or cancelled status never
\* changes again, for any sequence of enter, exit and set_status calls.
AllowedTransitions ==
    {<<"pending", "running">>, <<"running", "completed">>, <<"running", "failed">>,
     <<"running", "cancelled">>}

C4_StatusOnlyMovesForward ==
    [][\A s \in SpanIds :
          nStatus'[s] = nStatus[s] \/ <<nStatus[s], nStatus'[s]>> \in AllowedTransitions]_vars

\* C5: once the scope of a Span has exited (its __exit__ ran on the entered
\* Span and restored the context), the node's status is completed, failed or
\* cancelled, whatever set_status calls were made inside the scope.
C5_TerminalAfterExit ==
    (/\ last.op \in {"exit", "trace_exit"}
     /\ last.open
     /\ last.out \in {"ok"} \cup HostErrors)
    => nStatus[last.span] \in Terminal

\* C6: when the body of an entered Span's scope raises, __exit__ leaves the node
\* failed with error, error_type (the class name) and error_traceback set, and
\* its caller sees that same error go on.
C6_ErrorRecordedAndPropagated ==
    (last.op = "exit" /\ last.exc # NoErr /\ last.open)
    => /\ nStatus[last.span] = "failed"
       /\ nErr[last.span].error # "none"
       /\ nErr[last.span].error_type = last.exc
       /\ nErr[last.span].error_traceback # "none"
       /\ last.out = last.exc

\* C7: when a scope is exited in the context it was entered in, as the
\* innermost open scope, then after the exit the ambient current node (for a
\* trace scope also the ambient current trace) is what it was just before the
\* scope was entered, whether the body completed or raised.
C7_AmbientRestoredOnExit ==
    /\ (last.op = "exit" /\ last.lifo)
       => GetCurrentNode(brCtx[last.br]) = last.pre[2]
    /\ (last.op = "trace_exit" /\ last.lifo)
       => Amb(brCtx[last.br]) = last.pre

\* a trace scope entered while another trace and one of its Spans were ambient
\* was exited after its body raised
C7_Witness ==
    /\ last.op = "trace_exit" /\ last.lifo /\ last.exc \in HostErrors
    /\ last.pre[1] # NoTrace /\ last.pre[2] # NoNode

\* a Span nested in another Span's scope was exited
C7_WitnessSpan ==
    /\ last.op = "exit" /\ last.lifo
    /\ last.pre[2] # NoNode /\ spParent[last.pre[2]] # NoNode

\* C8: a branch starts on its own copy of the ambient state: when a branch
\* (an asyncio task, or a call of a wrapped callable on a thread) starts to run,
\* get_current_trace / get_current_node give it the values copied for it, and
\* no push or reset made by another branch is visible to it.
C8_BranchSeesOwnCopy ==
    \A b \in Branches :
        (brState[b] = "running" /\ brFresh[b]) => Amb(brCtx[b]) = ctxSnap[brCtx[b]]

\* C9: the root Span of every trace has no parent and depth 0, and entering the
\* trace scope succeeds, also for a trace opened while a Span of another trace
\* is the ambient current node.
C9_RootSpanIsRoot ==
    /\ \A t \in TraceIds :
          trRoot[t] # NoNode => (spParent[trRoot[t]] = NoNode /\ nDepth[trRoot[t]] = 0)
    /\ last.op = "trace_enter" => last.out = "ok"

\* C10: every node of a graph that has a parent_id has the depth of the node
\* named by parent_id plus one.
C10_DepthIsParentDepthPlusOne ==
    \A t \in TraceIds : \A s \in gnodes[t] :
        spParent[s] # NoNode => nDepth[s] = nDepth[spParent[s]] + 1

\* a node at depth 2 whose parent was the ambient current node (trace_node
\* wrapper), under a parent that is itself a registered child
C10_Witness ==
    /\ last.op = "wrapper" /\ last.out = "ok"
    /\ nDepth[last.span] = 2
    /\ last.span \in gnodes[last.trace] /\ spParent[last.span] \in gnodes[last.trace]


\* C11: after a trace scope has exited, every Span constructed for the trace
\* having been entered and no call being under way, the sequence numbers of
\* the nodes in its graph are exactly 0 .. N-1, N the number of nodes in the
\* graph, without duplicates, also when Spans were constructed by threads
\* running at once.
SeqOf(S) == {nSeq[s] : s \in S}
Distinct(S) == \A s1 \in S, s2 \in S : s1 # s2 => nSeq[s1] # nSeq[s2]

C11_GraphNumbersContiguous ==
    \A t \in TraceIds :
        (/\ trState[t] = "exited"
         /\ gnodes[t] = SpansOf(t)
         /\ \A b \in Branches : ~pend[b].active)
        => (SeqOf(gnodes[t]) = 0..(Cardinality(gnodes[t]) - 1) /\ Distinct(gnodes[t]))


\* C12: sequence numbers follow construction order: when Span A of a trace was
\* constructed before Span B of the same trace (Span ids are handed out in the
\* order in which the constructions finish), A's sequence_number is smaller
\* than B's, whatever was entered or exited since.
C12_NumbersFollowConstruction ==
    \A s1 \in Constructed, s2 \in Constructed :
        (s1 < s2 /\ spTrace[s1] = spTrace[s2]) => nSeq[s1] < nSeq[s2]


\* position of the first occurrence of step x in a call's steps, 0 when absent
StepPos(steps, x) ==
    IF \E i \in 1..Len(steps) : steps[i] = x
    THEN CHOOSE i \in 1..Len(steps) : steps[i] = x /\ \A j \in 1..(i - 1) : steps[j] # x
    ELSE 0
HasStep(steps, x) == StepPos(steps, x) > 0
StepBefore(steps, x, y) == HasStep(steps, x) /\ HasStep(steps, y) /\ StepPos(steps, x) < StepPos(steps, y)
StepCount(steps, x) == Cardinality({i \in 1..Len(steps) : steps[i] = x})

\* C13: when storage.save raises at trace scope exit, the failure becomes a
\* warning (one more than the root Span's exit emitted by itself): the caller of
\* the exit sees nothing but the body's own error (if any), nothing is stored,
\* and the graph keeps every node and edge.
C13_SaveFailureIsWarning ==
    [][(last'.op = "trace_exit" /\ HasStep(last'.steps, "save_warning"))
       => /\ last'.out = last'.exc \/ (last'.exc = NoErr /\ last'.out = "ok")
          /\ warnings' = warnings + 1 + ExitWarnings(last'.exc)
          /\ stored' = stored
          /\ gnodes' = gnodes /\ edges' = edges]_vars

\* a trace with a child node and an edge was exited and its save raised
C13_Witness ==
    /\ last.op = "trace_exit" /\ HasStep(last.steps, "save_warning")
    /\ last.out = "ok"
    /\ Cardinality(gnodes[last.trace]) >= 2 /\ Len(edges[last.trace]) >= 1
    /\ last.trace \notin stored


\* C14: storage.save is invoked exactly once for every trace scope: by the
\* scope's exit, after the root Span's exit and after end_time was stamped,
\* whether the body completed or raised; no other call invokes it.
C14_SaveOnceAtRootExit ==
    [][/\ last'.op = "trace_exit"
          => /\ saveCalls[last'.trace] = 0 /\ saveCalls'[last'.trace] = 1
             /\ trEnd'[last'.trace] = 1
             /\ StepCount(last'.steps, "save") = 1
             /\ StepBefore(last'.steps, "root_exit", "save")
             /\ StepBefore(last'.steps, "end_time", "save")
       /\ last'.op # "trace_exit" => saveCalls' = saveCalls
       /\ \A t \in TraceIds : saveCalls'[t] <= 1 /\ (saveCalls'[t] = 1 => trState'[t] = "exited")]_vars


\* C15: when the body of a trace scope raises, the scope's exit leaves the root
\* node failed with error and error_type set, restores the ambient trace and
\* node to what they were before the scope was entered, stamps end_time,
\* invokes storage.save, in this order, and the caller sees the body's error.
C15_TraceBodyErrorPropagates ==
    (last.op = "trace_exit" /\ last.exc # NoErr)
    => /\ nStatus[last.span] = "failed"
       /\ nErr[last.span].error # "none" /\ nErr[last.span].error_type = last.exc
       /\ Amb(brCtx[last.br]) = last.pre
       /\ trEnd[last.trace] = 1 /\ saveCalls[last.trace] = 1
       /\ StepBefore(last.steps, "root_exit", "reset_node")
       /\ StepBefore(last.steps, "reset_node", "reset_trace")
       /\ StepBefore(last.steps, "reset_trace", "end_time")
       /\ StepBefore(last.steps, "end_time", "save")
       /\ last.out = last.exc


\* the hook callbacks received so far by hook h for event ev of trace t
LogIndices(h, ev, t) ==
    {i \in 1..Len(log) : log[i].hook = h /\ log[i].ev = ev /\ log[i].trace = t}
HookIds == 1..Len(hooks)

NodeIndices(h, n, evs) ==
    {i \in 1..Len(log) : log[i].hook = h /\ log[i].node = n /\ log[i].ev \in evs}
Ended == {"completed", "failed"}
\* the latest started/completed/failed event hook h received for node n
LastNodeEvent(h, n) ==
    LET I == NodeIndices(h, n, {"started"} \cup Ended)
    IN IF I = {} THEN "none" ELSE log[CHOOSE i \in I : \A j \in I : j <= i].ev

\* C17: with Spans used as nested with blocks, every hook receives the node
\* events in nesting order: a child's started event comes after a started
\* event of its parent; when a parent's completed event arrives, every child
\* started before it has had its completed or failed event in between; the
\* exit of a scope delivers completed, or failed when the scope raised; and no
\* node event of a trace comes after that trace's trace_completed.
C17_HookEventsFollowNesting ==
    \A h \in HookIds :
        /\ \A i \in 1..Len(log) :
              (log[i].hook = h /\ log[i].ev = "started" /\ spParent[log[i].node] # NoNode)
              => \E j \in 1..(i - 1) :
                    log[j].hook = h /\ log[j].ev = "started"
                    /\ log[j].node = spParent[log[i].node]
        /\ \A i \in {x \in 1..Len(log) : log[x].hook = h /\ log[x].ev = "completed"} :
              \A c \in Constructed :
                  spParent[c] = log[i].node
                  => \A j \in NodeIndices(h, c, {"started"}) :
                        j < i => \E k \in NodeIndices(h, c, Ended) : j < k /\ k < i
        /\ (last.op \in {"exit", "trace_exit"})
           => LastNodeEvent(h, last.span)
                 = IF last.exc = NoErr THEN "completed" ELSE "failed"
        /\ \A i \in 1..Len(log), j \in 1..Len(log) :
              (log[i].hook = h /\ log[j].hook = h /\ log[i].ev = "trace_completed"
               /\ log[j].ev # "trace_completed" /\ log[j].trace = log[i].trace)
              => j < i


\* the callbacks a step invoked: what it appended to the log
NewCalls == SubSeq(log', Len(log) + 1, Len(log'))

\* C18: a hook callback that raises costs one warning per raising call and
\* nothing else.  At the exit of a trace scope (the one place where hooks are
\* called) the event still reaches every hook of the list, in list order; the
\* warnings of the exit are those of the raising callbacks, besides the one of
\* a save that raised and the one of the root Span's own exit; the caller sees
\* only the body's own error, the root node is completed or failed as the body
\* decided, and the graph was handed to storage once.
C18_RaisingHookOnlyWarns ==
    [][last'.op = "trace_exit"
       => /\ Len(NewCalls) = Len(hooks)
          /\ \A i \in 1..Len(NewCalls) :
                NewCalls[i] = [hook |-> i, ev |-> "trace_completed", node |-> NoNode,
                               trace |-> last'.trace]
          /\ warnings' = warnings
                         + Cardinality({i \in 1..Len(NewCalls) :
                                            hooks[NewCalls[i].hook] = "broken"})
                         + (IF HasStep(last'.steps, "save_warning") THEN 1 ELSE 0)
                         + ExitWarnings(last'.exc)
          /\ last'.out = (IF last'.exc = NoErr THEN "ok" ELSE last'.exc)
          /\ nStatus'[last'.span] = (IF last'.exc = NoErr THEN "completed" ELSE "failed")
          /\ \A n \in SpanIds : n # last'.span => nStatus'[n] = nStatus[n]
          /\ saveCalls'[last'.trace] = 1
          /\ StepCount(last'.steps, "save") = 1
          /\ HasStep(last'.steps, "save_warning") \/ last'.trace \in stored']_vars

\* a trace whose first hook raises in every callback and whose second hook does
\* not: a child ran and completed, the trace scope exited normally, the graph
\* was stored, the second hook was told that the trace completed, and the one
\* warning is that of the first hook's callback
C18_Witness ==
    /\ hooks = <<"broken", "ok">>
    /\ last.op = "trace_exit" /\ last.out = "ok"
    /\ last.trace \in stored
    /\ \E c \in Constructed : spParent[c] = last.span /\ nStatus[c] = "completed"
    /\ nStatus[last.span] = "completed"
    /\ Len(log) = 2 /\ warnings = 1
    /\ log[2] = [hook |-> 2, ev |-> "trace_completed", node |-> NoNode, trace |-> last.trace]



\* C19: entering or exiting a Span or a trace scope never shows the caller an
\* error of the tracing layer's own bookkeeping: the call returns normally, or
\* lets through exactly the error the scope's body raised.
C19_NoBookkeepingErrorReachesHost ==
    last.op \in {"enter", "exit", "trace_enter", "trace_exit", "wrapper", "wrapped_call"}
    => last.out \in {"ok", last.exc}



\* the child Spans made with node() on the root Span of trace t
RootChildren(t) == {s \in SpansOf(t) : s # trRoot[t] /\ spParent[s] = trRoot[t]}

\* C20: for a trace whose Spans are its root and k children made with node()
\* on the root by concurrently running branches: the children's sequence
\* numbers are pairwise distinct, every child's parent is the root, and once
\* the scope is entered and every child has been entered once, the graph has
\* exactly k + 1 nodes and exactly k edges, one caused_by edge from the root to
\* each child.
C20_ParallelChildrenGraph ==
    \A t \in TraceIds :
        (trState[t] = "entered" /\ SpansOf(t) = RootChildren(t) \cup {trRoot[t]})
        => /\ Distinct(RootChildren(t))
           /\ \A c \in RootChildren(t) : spParent[c] = trRoot[t]
           /\ (\A c \in RootChildren(t) : spEnters[c] = 1)
              => /\ Cardinality(gnodes[t]) = Cardinality(RootChildren(t)) + 1
                 /\ Len(edges[t]) = Cardinality(RootChildren(t))
                 /\ EdgeSet(t) = {<<trRoot[t], c, "caused_by">> : c \in RootChildren(t)}



\* C21: link(target, edge_type) with an edge type given, between two Spans of
\* one trace that have been entered (still open or not), appends exactly one edge <<caller, target, edge_type>>
\* to that trace's edges and leaves every edge that was there (the implicit
\* parent -> child edges too), the edges of every other graph, and every node
\* as they were.
C21_LinkAppendsOneEdge ==
    [][(/\ last'.op = "link" /\ last'.ty # "default"
        /\ spEnters[last'.span] > 0 /\ spEnters[last'.arg] > 0
        /\ spTrace[last'.span] = spTrace[last'.arg])
       => /\ last'.out = "ok"
          /\ edges'[last'.trace]
                = Append(edges[last'.trace], <<last'.span, last'.arg, last'.ty>>)
          /\ \A t \in TraceIds : t # last'.trace => edges'[t] = edges[t]
          /\ gnodes' = gnodes /\ nStatus' = nStatus /\ nErr' = nErr
          /\ nSeq' = nSeq /\ nDepth' = nDepth /\ spParent' = spParent]_vars

\* an entered child was linked to its entered parent as retry_of: the graph
\* holds the implicit edge parent -> child and, after it, the explicit edge
C21_Witness ==
    /\ last.op = "link" /\ last.out = "ok" /\ last.ty = "retry_of"
    /\ spEntered[last.span] /\ spEntered[last.arg]
    /\ spParent[last.span] = last.arg
    /\ edges[last.trace] = <<<<last.arg, last.span, "caused_by">>,
                             <<last.span, last.arg, "retry_of">>>>



\* C22: an exit without an error (of a Span, or of the root Span by its trace
\* scope) turns the status into completed only when it is running; any other
\* status, such as one set with set_status inside the scope, is the node's
\* status after the exit.
C22_ExitKeepsExplicitStatus ==
    [][(last'.op \in {"exit", "trace_exit"} /\ last'.exc = NoErr)
       => nStatus'[last'.span]
             = IF nStatus[last'.span] = "running" THEN "completed"
               ELSE nStatus[last'.span]]_vars

\* an open Span whose status was set to cancelled with set_status was exited
\* without an error and is still cancelled
C22_Witness ==
    /\ last.op = "exit" /\ last.exc = NoErr /\ last.out = "ok" /\ last.open
    /\ spParent[last.span] # NoNode
    /\ nStatus[last.span] = "cancelled"



\* the value the last input() / output() call was given, the value now stored
\* under its key, and the limit that call has to apply
LastStored == IF last.op = "input" THEN nData[last.span].input ELSE nData[last.span].output
LastLimit ==
    IF last.op = "input" THEN spCfg[last.span].max_input_size
    ELSE spCfg[last.span].max_output_size
\* kept is given cut to its first n characters, followed by the marker with
\* the length of given
IsTruncationOf(kept, given, n) ==
    LET tail == TruncatedMark \o Digits(Len(given.chars)) \o <<"]">>
    IN /\ kept.kind = "str"
       /\ Len(kept.chars) = n + Len(tail)
       /\ \A i \in 1..n : kept.chars[i] = given.chars[i]
       /\ \A i \in 1..Len(tail) : kept.chars[n + i] = tail[i]
TooLong(v, limit) == v.kind = "str" /\ limit.set /\ limit.n > 0 /\ Len(v.chars) > limit.n

\* C23 as stated: input() applies max_input_size and output() max_output_size;
\* a string longer than the limit is stored cut to limit characters plus the
\* marker with its length; every other value (a string within the limit, any
\* non-string value, any value under an unset or zero limit) is stored
\* unchanged.
C23_TruncationOnlyOfLongStrings ==
    last.op \in {"input", "output"}
    => IF TooLong(last.val, LastLimit)
       THEN IsTruncationOf(LastStored, last.val, LastLimit.n)
       ELSE LastStored = last.val

\* a value json.dumps rejects is stored as the string repr(value) followed by
\* " [NON-SERIALIZABLE]"
Sanitized(v) ==
    IF v.kind = "object"
    THEN [kind |-> "str", chars |-> v.chars \o NonSerializableTag]
    ELSE v

\* C23, amended: the same rule, applied to the sanitized value: a value that is
\* not JSON-representable is first replaced by its tagged repr string, and that
\* string is cut like any other string; JSON-representable non-string values
\* are stored unchanged.
C23_TruncationAfterSanitizing ==
    last.op \in {"input", "output"}
    => IF TooLong(Sanitized(last.val), LastLimit)
       THEN IsTruncationOf(LastStored, Sanitized(last.val), LastLimit.n)
       ELSE LastStored = Sanitized(last.val)

\* with max_input_size = 2 and max_output_size = 1, output() of "ab" stored
\* "a... [TRUNCATED: original_size=2]"
C23_Witness ==
    /\ last.op = "output" /\ last.val = [kind |-> "str", chars |-> <<"a", "b">>]
    /\ spCfg[last.span].max_input_size = [set |-> TRUE, n |-> 2]
    /\ spCfg[last.span].max_output_size = [set |-> TRUE, n |-> 1]
    /\ nData[last.span].output.chars = <<"a">> \o TruncatedMark \o <<"2", "]">>



\* C24: one call of a function wrapped with trace_node.  With an ambient
\* trace: one new Span, its node registered in the ambient trace's graph and in
\* no other, parented to the ambient current node, completed when the function
\* returned and failed when it raised.  With no ambient trace: no Span is
\* constructed and no graph, counter or node changes.  In both cases the caller
\* gets the function's result or error.
C24_WrappedCallOneNode ==
    [][last'.op = "wrapped_call"
       => LET c == brCtx[last'.br]
              t == GetCurrentTrace(c)
              cur == GetCurrentNode(c)
              new == spCount + 1
          IN /\ last'.out = (IF last'.exc = NoErr THEN "ok" ELSE last'.exc)
             /\ t = NoTrace
                => /\ spCount' = spCount
                   /\ gnodes' = gnodes /\ edges' = edges /\ counter' = counter
                   /\ nStatus' = nStatus /\ nErr' = nErr /\ ctxNode' = ctxNode
             /\ t # NoTrace
                => /\ spCount' = new
                   /\ gnodes'[t] = gnodes[t] \cup {new}
                   /\ \A t2 \in TraceIds : t2 # t => gnodes'[t2] = gnodes[t2]
                   /\ spTrace'[new] = t
                   /\ spParent'[new] = cur
                   /\ nStatus'[new] = (IF last'.exc = NoErr THEN "completed" ELSE "failed")
                   /\ \A n \in SpanIds : n # new => nStatus'[n] = nStatus[n]]_vars



\* C25: trace scopes opened by concurrently interleaved tasks are independent:
\* every scope is entered (none fails to open), its root has no parent and it
\* was entered with no ambient trace; while a scope is open, the Context it
\* was entered in has that trace as its ambient trace; every node registered
\* in a graph is a node of a Span of that trace, and every edge joins two of
\* them; every exited scope has handed its graph to storage once and the
\* storage holds it.
C25_ConcurrentTracesIndependent ==
    \A t \in TraceIds :
        /\ trState[t] # "broken"
        /\ trState[t] \in {"entered", "exited"}
           => /\ spParent[trRoot[t]] = NoNode
              /\ trBefore[t] = <<NoTrace, NoNode>>
        /\ trState[t] = "entered" => GetCurrentTrace(trTok[t].tr.ctx) = t
        /\ \A s \in gnodes[t] : spTrace[s] = t
        /\ \A i \in 1..Len(edges[t]) :
              spTrace[edges[t][i][1]] = t /\ spTrace[edges[t][i][2]] = t
        /\ trState[t] = "exited" => saveCalls[t] = 1 /\ t \in stored

\* two tasks each opened a trace; the child of the first trace was made and run
\* after the second trace's root had been constructed; both scopes have exited
\* and both graphs are stored, the child in the first graph only
C25_Witness ==
    /\ stored = {1, 2}
    /\ trState[1] = "exited" /\ trState[2] = "exited"
    /\ trTok[1].tr.ctx # trTok[2].tr.ctx
    /\ \E c \in Constructed :
          /\ spTrace[c] = 1 /\ spParent[c] = trRoot[1] /\ c > trRoot[2]
          /\ nStatus[c] = "completed"
          /\ c \in gnodes[1] /\ c \notin gnodes[2]


\* C26: for any graph built through the public API, deserializing its
\* serialized form yields a graph with an equal trace_id, the same set of node
\* ids with equal field values for every node, and the same sequence of edges.
C26_RoundTripEqual ==
    last.op = "round_trip"
    => /\ last.loaded.trace_id = last.trace
       /\ DOMAIN last.loaded.nodes = gnodes[last.trace]
       /\ \A s \in gnodes[last.trace] : last.loaded.nodes[s] = NodeFields(s)
       /\ last.loaded.edges = edges[last.trace]

\* C26, case: the round trip is exact for a graph whose nodes hold no tuple
C26_RoundTripWithoutTuples ==
    /\ last.op = "round_trip"
    /\ \A s \in gnodes[last.trace] :
          nData[s].input.kind # "tuple" /\ nData[s].output.kind # "tuple"
    => /\ last.loaded.trace_id = Graph(last.trace).trace_id
       /\ last.loaded.nodes = Graph(last.trace).nodes
       /\ last.loaded.edges = Graph(last.trace).edges

\* C26, case reached: a reloaded graph with a node that holds a list
C26_ListReloaded ==
    /\ last.op = "round_trip"
    /\ \E s \in gnodes[last.trace] :
          nData[s].input.kind = "list" /\ last.loaded.nodes[s].input_data.kind = "list"


\* the positions in the edge list of the graph of Span s that hold its implicit
\* parent -> self edge
ImplicitEdges(s) ==
    {i \in 1..Len(edges[spTrace[s]]) :
        edges[spTrace[s]][i] = <<spParent[s], s, "caused_by">>}

\* C27: over the whole lifetime of a Span handle, for any sequence of enter and
\* exit calls on it (entering it while it is entered, entering it again after
\* it has exited), its node is registered in the graph at exactly one entry
\* and its implicit parent -> self edge is appended at most once.
\* (stated for Spans whose parent, if any, is a node of their own trace)
C27_RegisteredAtOneEntry ==
    \A s \in Constructed :
        spParent[s] = NoNode \/ spTrace[spParent[s]] = spTrace[s]
        => /\ spEnters[s] <= 1
           /\ spParent[s] # NoNode => Cardinality(ImplicitEdges(s)) <= 1

\* C27, case: entering a Span that is still entered registers nothing again
C27_EnterWhileEnteredIsNoOp ==
    [][last'.op = "enter" /\ spEntered[last'.span]
       => /\ gnodes' = gnodes /\ edges' = edges
          /\ spEnters' = spEnters /\ nStatus' = nStatus]_vars


\* C28: constructing a Span draws one sequence number and leaves the shared
\* graph's nodes and edges and the ambient current trace and node unchanged;
\* the new node has status pending, and a node is in the graph only once its
\* Span has been entered.
C28_ConstructionLeavesGraphAlone ==
    [][/\ (last'.op \in {"construct", "trace"} /\ last'.span # NoNode)
          => /\ last'.span = spCount + 1
             /\ spCount' = spCount + 1
             /\ counter' = [counter EXCEPT ![last'.trace] = @ + 1]
             /\ nSeq'[last'.span] = counter[last'.trace]
             /\ gnodes' = gnodes
             /\ edges' = edges
             /\ ctxTrace' = ctxTrace
             /\ ctxNode' = ctxNode
             /\ nStatus'[last'.span] = "pending"
             /\ \A u \in TraceIds : last'.span \notin gnodes'[u]
       /\ \A u \in TraceIds : \A n \in gnodes'[u] : spEnters'[n] > 0]_vars

\* C28, case reached: a child constructed in an entered trace scope, pending
\* and not registered, beside the registered root
C28_Witness ==
    /\ last.op = "construct"
    /\ trState[last.trace] = "entered"
    /\ spParent[last.span] = trRoot[last.trace]
    /\ nStatus[last.span] = "pending"
    /\ gnodes[last.trace] = {trRoot[last.trace]}
    /\ edges[last.trace] = <<>>
    /\ counter[last.trace] = 2


\* C29: the graph's end_time is stamped exactly once, at root-scope exit, and
\* after the graph has been handed to storage.save no later operation adds a
\* node or an edge to it or changes the status of one of its nodes, also when
\* Span handles of that trace are still held or still running in another
\* branch when the root scope exits.
C29_SavedGraphIsFrozen ==
    [][\A t \in TraceIds :
          /\ trEnd'[t] <= 1
          /\ trEnd'[t] # trEnd[t] => last'.op = "trace_exit" /\ last'.trace = t
          /\ saveCalls[t] > 0
             => /\ gnodes'[t] = gnodes[t]
                /\ edges'[t] = edges[t]
                /\ \A s \in gnodes[t] : nStatus'[s] = nStatus[s]]_vars

\* C29, first half: end_time is stamped at most once, by the root scope's exit
C29_EndTimeStampedOnce ==
    [][\A t \in TraceIds :
          /\ trEnd'[t] <= 1
          /\ trEnd'[t] # trEnd[t] => last'.op = "trace_exit" /\ last'.trace = t]_vars


\* C30: link() called without an edge type appends an edge of type caused_by.
C30_LinkDefaultsToCausedBy ==
    /\ last.op = "link"
    /\ last.ty = "default"
    /\ last.out = "ok"
    => /\ Len(edges[last.trace]) > 0
       /\ edges[last.trace][Len(edges[last.trace])] = <<last.span, last.arg, "caused_by">>

\* C30, what the code does: the edge appended by link() without an edge type
\* has type data_flow
C30_LinkDefaultsToDataFlow ==
    /\ last.op = "link"
    /\ last.ty = "default"
    /\ last.out = "ok"
    => /\ Len(edges[last.trace]) > 0
       /\ edges[last.trace][Len(edges[last.trace])] = <<last.span, last.arg, "data_flow">>


\* the task whose coroutine __aenter__ / __aexit__ returns in this step
Returning(b) == pend[b].active /\ ~pend'[b].active

\* the task takes this step
Acting(b) == pend[b].active \/ pend'[b].active \/ (last' # last /\ last'.br = b)

\* C31: using a Span or a trace scope as an asynchronous scope is the same as
\* using it as a synchronous one.  When the coroutine __aenter__ or __aexit__
\* of a Span or a trace scope returns, the node's status and error fields, the
\* graph's nodes and edges, the scope's tokens and entered flag, the ambient
\* trace and node, what was stamped and stored, and what the caller observes
\* are what __enter__ or __exit__, called in its place with the same
\* arguments, would have left.  And while a task is suspended inside its
\* scopes, what the other tasks do changes neither its ambient trace and node
\* nor the status, error fields, token, entered flag or registration of the
\* Spans it has open.
C31_AsyncScopeIsSyncScope ==
    [][\A b \in Branches :
          /\ Returning(b)
             => LET p == pend[b]
                    e == p.sync
                    s == p.span
                    t == p.trace
                    c == brCtx[b]
                IN /\ p.ret.op \in {"aenter", "trace_aenter"}
                      => /\ last'.out = e.out
                         /\ nStatus'[s] = e.status
                         /\ gnodes'[t] = e.nodes /\ edges'[t] = e.edges
                         /\ spTok'[s] = e.tok /\ spEntered'[s] = e.entered
                         /\ ctxNode'[c] = e.node
                   /\ p.ret.op = "trace_aenter"
                      => /\ ctxTrace'[c] = t
                         /\ trTok'[t] = [tr |-> PushToken(c, trBefore[t][1]),
                                         nd |-> PushToken(c, trBefore[t][2])]
                         /\ trState'[t] = IF e.out = "ok" THEN "entered" ELSE "broken"
                   /\ p.ret.op = "aexit"
                      => /\ last'.out = e.out
                         /\ nStatus'[s] = e.status /\ nErr'[s] = e.err
                         /\ spTok'[s] = e.tok /\ spEntered'[s] = e.entered
                         /\ ctxNode'[c] = e.node
                   /\ p.ret.op = "trace_aexit"
                      => /\ last'.out = e.out
                         /\ nStatus'[s] = e.root.status /\ nErr'[s] = e.root.err
                         /\ spTok'[s] = e.root.tok /\ spEntered'[s] = e.root.entered
                         /\ ctxNode'[c] = e.node /\ ctxTrace'[c] = e.trace
                         /\ trTok'[t] = [tr |-> e.trTok, nd |-> e.ndTok]
                         /\ trState'[t] = "exited"
                         /\ last'.steps = e.steps \o (IF e.finalized THEN FinalizeSteps(p.ok)
                                                      ELSE <<>>)
                         /\ trEnd'[t] = (IF e.finalized THEN 1 ELSE 0)
                         /\ saveCalls'[t] = (IF e.finalized THEN 1 ELSE 0)
                         /\ (t \in stored') = (e.finalized /\ p.ok)
          /\ (brState[b] = "running" /\ ~Acting(b))
             => LET c == brCtx[b]
                IN /\ ctxTrace'[c] = ctxTrace[c]
                   /\ ctxNode'[c] = ctxNode[c]
                   /\ \A s \in Constructed :
                         spEntered[s] /\ spTok[s].ctx = c
                         => /\ spEntered'[s]
                            /\ spTok'[s] = spTok[s]
                            /\ nStatus'[s] = nStatus[s]
                            /\ nErr'[s] = nErr[s]
                            /\ s \in gnodes'[spTrace[s]]]_vars

\* C31, case reached: a task inside the async scope of a trace started a task
\* of its own, and that task left the async scope of a child Span with an
\* error while the first task was suspended inside the trace scope
C31_Witness ==
    /\ last.op = "aexit"
    /\ last.exc # NoErr /\ last.out = last.exc
    /\ spParent[last.span] # NoNode
    /\ nStatus[last.span] = "failed"
    /\ \E s \in Constructed :
          /\ spEntered[s]
          /\ spTok[s].ctx # brCtx[last.br]
          /\ spTrace[s] = last.trace
          /\ nStatus[s] = "running"


\* C32: a callable wrapped with propagate_context observes, when it starts to
\* run, the ambient trace and node that were current when it was wrapped,
\* whatever the thread that calls it has as ambient state.
C32_WrappedSeesWrapTimeContext ==
    \A b \in Branches :
        /\ brState[b] = "running"
        /\ brKind[b] = "thread"
        /\ brFresh[b]
        => /\ ctxWrapped[brCtx[b]]
           /\ GetCurrentTrace(brCtx[b]) = ctxSnap[brCtx[b]][1]
           /\ GetCurrentNode(brCtx[b]) = ctxSnap[brCtx[b]][2]

\* C32, case: it does for a wrapped callable none of whose earlier calls
\* pushed anything in the copied Context
C32_UntouchedCopySeesWrapTimeContext ==
    \A b \in Branches :
        /\ brState[b] = "running"
        /\ brKind[b] = "thread"
        /\ brFresh[b]
        /\ \A s \in Constructed : spTok[s].ctx # brCtx[b]
        /\ \A t \in TraceIds : trTok[t].tr.ctx # brCtx[b]
        => /\ GetCurrentTrace(brCtx[b]) = ctxSnap[brCtx[b]][1]
           /\ GetCurrentNode(brCtx[b]) = ctxSnap[brCtx[b]][2]

\* C32, case reached: a callable wrapped inside a trace scope starts on a
\* thread with the trace and root node of the wrapping moment
C32_WrappedInsideScopeRuns ==
    \E b \in Branches :
        /\ brState[b] = "running" /\ brKind[b] = "thread" /\ brFresh[b]
        /\ ctxSnap[brCtx[b]][1] # NoTrace
        /\ ctxSnap[brCtx[b]][2] # NoNode
        /\ Amb(brCtx[b]) = ctxSnap[brCtx[b]]


\* C33: in every reachable state, each node registered in a TraceGraph with a
\* parent has its parent registered in the same graph, and the graph holds a
\* caused_by edge from that parent to the node.
C33_ParentRegisteredWithEdge ==
    \A t \in TraceIds : \A s \in gnodes[t] :
        spParent[s] # NoNode
        => /\ spParent[s] \in gnodes[t]
           /\ <<spParent[s], s, "caused_by">> \in EdgeSet(t)

\* C33, case: it holds for Spans used as properly nested with blocks whose
\* parent belongs to their own trace
C33_NestedScopesParentRegistered ==
    \A t \in TraceIds : \A s \in gnodes[t] :
        spParent[s] # NoNode /\ spTrace[spParent[s]] = t
        => /\ spParent[s] \in gnodes[t]
           /\ <<spParent[s], s, "caused_by">> \in EdgeSet(t)


\* C34: if entering a Span fails (a child whose parent Span was constructed but
\* never entered, so that the implicit parent edge is rejected), the failed
\* enter leaves the graph's nodes and edges, the node's status and the ambient
\* current node exactly as they were before the attempt.
C34_FailedEnterChangesNothing ==
    [][last'.op = "enter" /\ last'.out # "ok"
       => /\ gnodes' = gnodes
          /\ edges' = edges
          /\ nStatus' = nStatus
          /\ ctxNode' = ctxNode]_vars

\* C34, what the failed enter does leave alone: the edge list and the ambient
\* current node; the Span is not marked entered and no token is stored
C34_FailedEnterKeepsEdgesAndAmbient ==
    [][last'.op = "enter" /\ last'.out # "ok"
       => /\ edges' = edges
          /\ ctxNode' = ctxNode
          /\ ~spEntered'[last'.span]
          /\ spTok' = spTok]_vars


\* C35: if entering a trace scope fails after the ambient trace and node have
\* been pushed, the ambient current trace and current node are restored to
\* their values before the attempt: no push made by a trace scope is left
\* without its reset.
C35_FailedTraceEnterRestoresAmbient ==
    [][last'.op = "trace_enter" /\ last'.out # "ok"
       => /\ ctxTrace' = ctxTrace
          /\ ctxNode' = ctxNode]_vars

\* C35, case: a trace scope whose enter succeeded and whose exit ran in order
\* has both pushes reset
C35_ExitedScopeRestoresAmbient ==
    [][/\ last'.op = "trace_exit"
       /\ last'.out = "ok"
       /\ last'.lifo
       => <<ctxTrace'[brCtx[last'.br]], ctxNode'[brCtx[last'.br]]>> = last'.pre]_vars


\* C36: in every reachable state of every task / thread context, the ambient
\* current node is either none or the node of a Span that has been entered and
\* has not yet exited, for any order in which the Spans of that context are
\* exited.
C36_AmbientNodeIsOpenSpan ==
    \A c \in 1..ctxCount :
        GetCurrentNode(c) # NoNode => spEntered[GetCurrentNode(c)]


\* C37: in every reachable state of every task / thread context, whenever the
\* ambient current node is not none, the ambient current trace is not none and
\* that node is registered in the ambient current trace's graph (so a Span that
\* takes both its trace and its parent from the ambient context has its parent
\* in its own graph).
C37_AmbientNodeInAmbientTrace ==
    \A c \in 1..ctxCount :
        GetCurrentNode(c) # NoNode
        => /\ GetCurrentTrace(c) # NoTrace
           /\ GetCurrentNode(c) \in gnodes[GetCurrentTrace(c)]


\* C38: the size limits configured on a Tracer apply to every Span of its
\* traces: input and output captured by a trace_node-wrapped call inside a
\* trace of a Tracer with max_input_size / max_output_size set are truncated
\* exactly as for Spans created with node().
C38_WrapperCaptureUsesTracerLimits ==
    last.op = "wrapped_capture" /\ last.open
    => /\ nData[last.span].input =
             TruncateIfNeeded(SafeValue(last.val), InputLimit(cfg))
       /\ nData[last.span].output =
             TruncateIfNeeded(SafeValue(last.val), OutputLimit(cfg))

\* C38, what the code does: a wrapped call stores the sanitized value whole
C38_WrapperCaptureUnlimited ==
    last.op = "wrapped_capture" /\ last.open
    => /\ nData[last.span].input = SafeValue(last.val)
       /\ nData[last.span].output = SafeValue(last.val)

\* C38, case: the Spans made with node() and the root Span do use the limits
C38_NodeSpansUseTracerLimits ==
    /\ last.op = "input"
       => nData[last.span].input = TruncateIfNeeded(SafeValue(last.val), InputLimit(cfg))
    /\ last.op = "output"
       => nData[last.span].output = TruncateIfNeeded(SafeValue(last.val), OutputLimit(cfg))


\* C39: next_sequence_number on a TraceGraph never returns a value equal to
\* the sequence_number of a node already in that graph, including for a graph
\* reconstructed from its serialized form.
C39_SequenceNumberIsFresh ==
    /\ (last.op \in {"construct", "trace"} /\ last.span # NoNode)
       => \A s \in gnodes[last.trace] \ {last.span} : nSeq[s] # nSeq[last.span]
    /\ last.op = "next_sequence_number"
       => \A s \in DOMAIN last.loaded.nodes :
             last.loaded.nodes[s].sequence_number # last.arg

\* C39, case: it holds for the graph of a trace scope that was never reloaded
C39_LiveGraphNumberIsFresh ==
    (last.op \in {"construct", "trace"} /\ last.span # NoNode)
    => \A s \in gnodes[last.trace] \ {last.span} : nSeq[s] # nSeq[last.span]

\* C39, case reached: a Span constructed in a live graph that holds its root
C39_LiveGraphDraw ==
    /\ last.op = "construct"
    /\ gnodes[last.trace] = {trRoot[last.trace]}
    /\ nSeq[last.span] = 1

====
